---- MODULE Spec2Model ----
(***************************************************************************)
(* Model of the Domoticz MCP server's OAuth redirect bridge                *)
(* (src/mcp_server.py, src/oauth_client.py).                               *)
(*                                                                         *)
(* Python strings are sequences of one-character strings, so that          *)
(* str.startswith, urllib.parse.quote and urllib.parse.urlencode are       *)
(* computed character by character as the library computes them.           *)
(* Python's None is the one-element sequence <<"None">>, which is no       *)
(* string of the model (its element is not a single character).            *)
(***************************************************************************)
EXTENDS Integers, Sequences, FiniteSets, TLC

None == <<"None">>

\* None where a dict is expected (a dict is a sequence of <<key, value>> pairs)
NoneDict == <<None>>

\* Python truthiness of an Optional[dict]: None and {} are falsy.
TruthyDict(d) == d # NoneDict /\ d # <<>>

\* Python truthiness of an Optional[str]: None and '' are falsy.
Truthy(s) == s # None /\ s # <<>>

\* str.startswith(prefix)
StartsWith(s, prefix) ==
    /\ Len(s) >= Len(prefix)
    /\ SubSeq(s, 1, Len(prefix)) = prefix

\* c in s
Contains(s, c) == \E i \in 1..Len(s) : s[i] = c

\* str.rstrip('/')
RECURSIVE RStripSlash(_)
RStripSlash(s) ==
    IF s # <<>> /\ s[Len(s)] = "/" THEN RStripSlash(SubSeq(s, 1, Len(s) - 1)) ELSE s

\* ---- urllib.parse.quote / quote_plus / urlencode ------------------------

\* Characters urllib.parse.quote never encodes (_ALWAYS_SAFE).
AlwaysSafe ==
    { "a","b","c","d","e","f","g","h","i","j","k","l","m","n","o","p","q","r",
      "s","t","u","v","w","x","y","z",
      "A","B","C","D","E","F","G","H","I","J","K","L","M","N","O","P","Q","R",
      "S","T","U","V","W","X","Y","Z",
      "0","1","2","3","4","5","6","7","8","9","_",".","-","~" }

\* '%XX' of the reserved ASCII characters the model's inputs use.
PctEncode(c) ==
    CASE c = " " -> <<"%","2","0">>
      [] c = "#" -> <<"%","2","3">>
      [] c = "%" -> <<"%","2","5">>
      [] c = "&" -> <<"%","2","6">>
      [] c = "+" -> <<"%","2","B">>
      [] c = "/" -> <<"%","2","F">>
      [] c = ":" -> <<"%","3","A">>
      [] c = "=" -> <<"%","3","D">>
      [] c = "?" -> <<"%","3","F">>
      [] c = "@" -> <<"%","4","0">>

\* urllib.parse.quote(s, safe): every character outside _ALWAYS_SAFE and
\* safe becomes its %XX escape.
RECURSIVE QuoteSafe(_, _)
QuoteSafe(s, safe) ==
    IF s = <<>> THEN <<>>
    ELSE (IF Head(s) \in AlwaysSafe \cup safe THEN <<Head(s)>> ELSE PctEncode(Head(s)))
         \o QuoteSafe(Tail(s), safe)

\* urllib.parse.quote(s), default safe='/'
quote(s) == QuoteSafe(s, {"/"})

\* urllib.parse.quote_plus(s): quote with safe=' ', then ' ' -> '+'
quote_plus(s) ==
    LET q == QuoteSafe(s, {" "})
    IN  [i \in 1..Len(q) |-> IF q[i] = " " THEN "+" ELSE q[i]]

\* urllib.parse.urlencode(qp) of an ordered dict, given as a sequence of
\* <<key, value>> pairs: 'k1=v1&k2=v2', keys and values quote_plus'ed.
RECURSIVE urlencode(_)
urlencode(qp) ==
    IF qp = <<>> THEN <<>>
    ELSE quote_plus(qp[1][1]) \o <<"=">> \o quote_plus(qp[1][2])
         \o (IF Len(qp) > 1 THEN <<"&">> \o urlencode(Tail(qp)) ELSE <<>>)

\* ---- ordered dict of query parameters -----------------------------------

Keys(qp) == { qp[i][1] : i \in 1..Len(qp) }

\* qp.get(k): the value of k, None when absent
Get(qp, k) ==
    IF k \in Keys(qp)
    THEN qp[CHOOSE i \in 1..Len(qp) : qp[i][1] = k /\ \A j \in 1..(i-1) : qp[j][1] # k][2]
    ELSE None

\* qp[k] = v: replaces the value in place, or appends a new key at the end
Set(qp, k, v) ==
    IF k \in Keys(qp)
    THEN [i \in 1..Len(qp) |-> IF qp[i][1] = k THEN <<k, v>> ELSE qp[i]]
    ELSE Append(qp, <<k, v>>)

\* qp.pop(k)
RECURSIVE Pop(_, _)
Pop(qp, k) ==
    IF qp = <<>> THEN <<>>
    ELSE IF qp[1][1] = k THEN Pop(Tail(qp), k)
    ELSE <<qp[1]>> \o Pop(Tail(qp), k)

\* dict(request.rel_url.query): the multidict's keys in order of first
\* occurrence, each with its first value.
RECURSIVE Dict(_)
Dict(query) ==
    IF query = <<>> THEN <<>>
    ELSE LET d == Dict(SubSeq(query, 1, Len(query) - 1))
             p == query[Len(query)]
         IN  IF p[1] \in Keys(d) THEN d ELSE Append(d, p)

\* ---- urllib.parse.urlparse / urlunparse ----------------------------------

\* s.find(c in chars): index of the first character of s in chars, 0 if none
IndexOf(s, chars) ==
    IF \E i \in 1..Len(s) : s[i] \in chars
    THEN CHOOSE i \in 1..Len(s) : s[i] \in chars /\ \A j \in 1..(i-1) : s[j] \notin chars
    ELSE 0

\* s.rfind(c): index of the last occurrence of c, 0 if none
LastIndexOf(s, c) ==
    IF \E i \in 1..Len(s) : s[i] = c
    THEN CHOOSE i \in 1..Len(s) : s[i] = c /\ \A j \in (i+1)..Len(s) : s[j] # c
    ELSE 0

UpperCase == <<"A","B","C","D","E","F","G","H","I","J","K","L","M",
               "N","O","P","Q","R","S","T","U","V","W","X","Y","Z">>
LowerCase == <<"a","b","c","d","e","f","g","h","i","j","k","l","m",
               "n","o","p","q","r","s","t","u","v","w","x","y","z">>
Digit == <<"0","1","2","3","4","5","6","7","8","9">>

Range(f) == { f[i] : i \in DOMAIN f }

\* str.lower()
Lower(s) ==
    [i \in 1..Len(s) |->
        IF s[i] \in Range(UpperCase)
        THEN LowerCase[CHOOSE k \in 1..26 : UpperCase[k] = s[i]]
        ELSE s[i]]

\* urllib.parse.scheme_chars
SchemeChars == Range(UpperCase) \cup Range(LowerCase) \cup Range(Digit) \cup {"+", "-", "."}

\* s[:i-1] for an index i found in s, s when i = 0 (nothing found)
Before(s, i) == IF i = 0 THEN s ELSE SubSeq(s, 1, i - 1)

\* s[i+1:] for an index i found in s, '' when i = 0
After(s, i) == IF i = 0 THEN <<>> ELSE SubSeq(s, i + 1, Len(s))

\* s[i:] for an index i found in s, '' when i = 0
From(s, i) == IF i = 0 THEN <<>> ELSE SubSeq(s, i, Len(s))

\* urlsplit: url[:i] is a scheme when i > 0, it starts with a letter and
\* consists of scheme characters; c is url.find(':')
HasSchemeAt(url, c) ==
    /\ c > 1
    /\ url[1] \in Range(UpperCase) \cup Range(LowerCase)
    /\ \A i \in 1..(c-1) : url[i] \in SchemeChars

UrlScheme(url, c) == IF HasSchemeAt(url, c) THEN Lower(SubSeq(url, 1, c - 1)) ELSE <<>>
UrlAfterScheme(url, c) == IF HasSchemeAt(url, c) THEN SubSeq(url, c + 1, Len(url)) ELSE url

\* urlsplit: if url[:2] == '//': netloc, url = _splitnetloc(url, 2)
HasNetloc(r) == Len(r) >= 2 /\ r[1] = "/" /\ r[2] = "/"
UrlNetloc(r) ==
    IF HasNetloc(r) THEN Before(SubSeq(r, 3, Len(r)), IndexOf(SubSeq(r, 3, Len(r)), {"/", "?", "#"}))
    ELSE <<>>
UrlAfterNetloc(r) ==
    IF HasNetloc(r) THEN From(SubSeq(r, 3, Len(r)), IndexOf(SubSeq(r, 3, Len(r)), {"/", "?", "#"}))
    ELSE r

\* _splitparams(path): the text after the first ';' of the last path segment
\* is the params; sl is path.rfind('/')
ParamsAt(path, sl) == IndexOf(SubSeq(path, sl + 1, Len(path)), {";"})
UrlPath(path, sl) ==
    IF ParamsAt(path, sl) = 0 THEN path ELSE SubSeq(path, 1, sl + ParamsAt(path, sl) - 1)
UrlParams(path, sl) ==
    IF ParamsAt(path, sl) = 0 THEN <<>> ELSE SubSeq(path, sl + ParamsAt(path, sl) + 1, Len(path))

\* the text before '#' splits at '?' into path;params and query
UrlParse4(scheme, netloc, pathparams, query, fragment) ==
    [scheme |-> scheme, netloc |-> netloc,
     path |-> UrlPath(pathparams, LastIndexOf(pathparams, "/")),
     params |-> UrlParams(pathparams, LastIndexOf(pathparams, "/")),
     query |-> query, fragment |-> fragment]

UrlParse3(scheme, netloc, r, fragment) ==
    UrlParse4(scheme, netloc, Before(r, IndexOf(r, {"?"})), After(r, IndexOf(r, {"?"})), fragment)

\* the text after the netloc splits at '#' into the rest and the fragment
UrlParse2(scheme, netloc, r) ==
    UrlParse3(scheme, netloc, Before(r, IndexOf(r, {"#"})), After(r, IndexOf(r, {"#"})))

UrlParse1(scheme, r) == UrlParse2(scheme, UrlNetloc(r), UrlAfterNetloc(r))

\* urllib.parse.urlparse(url) for the schemes that take parameters
\* ('', http, https): the 6-tuple scheme, netloc, path, params, query, fragment.
urlparse(url) ==
    UrlParse1(UrlScheme(url, IndexOf(url, {":"})), UrlAfterScheme(url, IndexOf(url, {":"})))

\* the host part of host[:port]
HostOf(hostport) == Lower(Before(hostport, IndexOf(hostport, {":"})))

\* ParseResult.hostname (no IPv6 literals): the netloc after the last '@',
\* before the first ':', lowercased; None when empty.
hostname(netloc) ==
    IF HostOf(SubSeq(netloc, LastIndexOf(netloc, "@") + 1, Len(netloc))) = <<>> THEN None
    ELSE HostOf(SubSeq(netloc, LastIndexOf(netloc, "@") + 1, Len(netloc)))

\* urlunparse: url = path;params when there are params
WithParams(path, params) == IF params # <<>> THEN path \o <<";">> \o params ELSE path

\* urlunsplit: a path that does not start with '/' gets one after a netloc
WithSlash(url) == IF url # <<>> /\ url[1] # "/" THEN <<"/">> \o url ELSE url

\* urllib.parse.urlunparse((scheme, netloc, path, params, query, fragment))
\* for a non-empty netloc.
urlunparse(scheme, netloc, path, params, query, fragment) ==
    (IF scheme # <<>> THEN scheme \o <<":">> ELSE <<>>)
        \o <<"/", "/">> \o netloc \o WithSlash(WithParams(path, params))
        \o (IF query # <<>> THEN <<"?">> \o query ELSE <<>>)
        \o (IF fragment # <<>> THEN <<"#">> \o fragment ELSE <<>>)

\* str(int): decimal digits of a natural number
RECURSIVE Decimal(_)
Decimal(n) ==
    IF n < 10 THEN <<Digit[n + 1]>>
    ELSE Decimal(n \div 10) \o <<Digit[(n % 10) + 1]>>

\* ---- string literals of the source ---------------------------------------

K_redirect_uri == <<"r","e","d","i","r","e","c","t","_","u","r","i">>  \* 'redirect_uri'
K_state == <<"s","t","a","t","e">>  \* 'state'
K_client_secret == <<"c","l","i","e","n","t","_","s","e","c","r","e","t">>  \* 'client_secret'
K_code == <<"c","o","d","e">>  \* 'code'
K_error == <<"e","r","r","o","r">>  \* 'error'
K_authorization_endpoint == <<"a","u","t","h","o","r","i","z","a","t","i","o","n","_","e","n","d","p","o","i","n","t">>  \* 'authorization_endpoint'
K_token_endpoint == <<"t","o","k","e","n","_","e","n","d","p","o","i","n","t">>  \* 'token_endpoint'
K_issuer == <<"i","s","s","u","e","r">>  \* 'issuer'
HttpLoopbackIp == <<"h","t","t","p",":","/","/","1","2","7",".","0",".","0",".","1">>  \* 'http://127.0.0.1'
HttpLocalhost == <<"h","t","t","p",":","/","/","l","o","c","a","l","h","o","s","t">>  \* 'http://localhost'
Https == <<"h","t","t","p","s",":","/","/">>  \* 'https://'
RedirectBridgePath == <<"/","r","e","d","i","r","e","c","t","_","b","r","i","d","g","e">>  \* '/redirect_bridge'
StPrefix == <<"s","t","_">>  \* 'st_'
UnknownError == <<"u","n","k","n","o","w","n","_","e","r","r","o","r">>  \* 'unknown_error'
CodeEq == <<"c","o","d","e","=">>  \* 'code='
ErrorEq == <<"e","r","r","o","r","=">>  \* 'error='
AmpStateEq == <<"&","s","t","a","t","e","=">>  \* '&state='
DomoticzLocal == <<"d","o","m","o","t","i","c","z",".","l","o","c","a","l">>  \* 'domoticz.local'

\* self.redirect_bridge_ttl, seconds
redirect_bridge_ttl == 600
\* self.recent_codes_limit
recent_codes_limit == 20
\* self.redirect_bridge_enabled, self.debug_bridge_page: set by the
\* constructor and never assigned again
redirect_bridge_enabled == TRUE
debug_bridge_page == FALSE

\* ---- inputs ---------------------------------------------------------------

R_loop == <<"h","t","t","p",":","/","/","1","2","7",".","0",".","0",".","1",":","9","/","c","b">>  \* 'http://127.0.0.1:9/cb'
R_loop2 == <<"h","t","t","p",":","/","/","1","2","7",".","0",".","0",".","1",":","7","/","c","b">>  \* 'http://127.0.0.1:7/cb'
R_localq == <<"h","t","t","p",":","/","/","l","o","c","a","l","h","o","s","t","/","c","b","?","x","=","1">>  \* 'http://localhost/cb?x=1'
R_https == <<"h","t","t","p","s",":","/","/","c",".","e","x","/","c","b">>  \* 'https://c.ex/cb'
R_http == <<"h","t","t","p",":","/","/","c",".","e","x","/","c","b">>  \* 'http://c.ex/cb'
R_prefix == <<"h","t","t","p",":","/","/","l","o","c","a","l","h","o","s","t",".","c",".","e","x","/","c","b">>  \* 'http://localhost.c.ex/cb'
R_httpsloop == <<"h","t","t","p","s",":","/","/","1","2","7",".","0",".","0",".","1","/","c","b">>  \* 'https://127.0.0.1/cb'
S_abc == <<"a","b","c">>  \* 'abc'
S_sp == <<"a"," ","b">>  \* 'a b'
C_xyz == <<"X","Y","Z">>  \* 'XYZ'
C_res == <<"X","/","Y","+","Z">>  \* 'X/Y+Z'
E_denied == <<"d","e","n","i","e","d">>  \* 'denied'
V_secret == <<"s","3">>  \* 's3'
V_secret2 == <<"s","4">>  \* 's4'
BaseHttps == <<"h","t","t","p","s",":","/","/","b",".","e","x">>  \* 'https://b.ex'
BaseHttpsSlash == <<"h","t","t","p","s",":","/","/","b",".","e","x","/">>  \* 'https://b.ex/'
BaseUrl == <<"h","t","t","p","s",":","/","/","d",".","e","x">>  \* 'https://d.ex'
AuthEp == <<"h","t","t","p","s",":","/","/","d",".","e","x","/","a">>  \* 'https://d.ex/a'
TokenEp == <<"h","t","t","p","s",":","/","/","d",".","e","x","/","t">>  \* 'https://d.ex/t'
LocalAuthEp == <<"h","t","t","p",":","/","/","d","o","m","o","t","i","c","z",".","l","o","c","a","l",":","8","0","8","0","/","a">>  \* 'http://domoticz.local:8080/a'
LocalTokenEp == <<"h","t","t","p",":","/","/","d","o","m","o","t","i","c","z",".","l","o","c","a","l",":","8","0","8","0","/","t">>  \* 'http://domoticz.local:8080/t'

\* ---- bounds ---------------------------------------------------------------

\* number of HTTP requests handled in one behaviour of Spec
MaxRequests == 2
\* number of HTTP requests handled in one behaviour of SpecFlow
MaxFlowRequests == 3
\* number of HTTP requests handled in one behaviour of SpecProxy
MaxProxyRequests == 3
\* number of HTTP requests handled in one behaviour of SpecRing once the
\* recent-codes buffer is full
MaxRingRequests == 3
\* number of HTTP requests handled in one behaviour of SpecMcp
MaxMcpRequests == 2
MaxNormRequests == 3
MaxCallbacks == 2
MaxRaceRequests == 2
MaxLoopTasks == 2
MaxCacheRequests == 3
\* the clock advances by one second at most MaxSeconds times per TTL period,
\* and by a whole TTL period at most MaxPeriods times
MaxSeconds == 1
MaxPeriods == 1

\* ---- state ----------------------------------------------------------------

VARIABLES
    now,                    \* time.time(), in seconds
    domoticz_oauth_client,  \* TRUE iff self.domoticz_oauth_client is not None
    oauth_config,           \* domoticz_oauth_client.oauth_config: None or an ordered dict
    external_bridge_base,   \* self.external_bridge_base: None or a string
    redirect_bridge_map,    \* self.redirect_bridge_map: state -> [redirect, ts]
    recent_auth_codes,      \* self.recent_auth_codes
    request,                \* the request handled last: [path, query, answer, reply],
                            \* answer being the downstream's answer to its discovery
                            \* call and reply the one to its own downstream call
    response,               \* the response to it: [status, kind, text, location, body,
                            \* www_authenticate]
    nreq,                   \* number of requests handled so far
    bridge_log,             \* what the handlers logged about the bridge store
    calls,                  \* the downstream HTTP calls made while handling the last
                            \* request, in order: [kind, url, data, bearer]
    proxy_log,              \* what proxy_token wrote to the log about the form and the
                            \* body while handling the last request: [line, fields]
    tasks,                  \* the requests being handled, each with the place its
                            \* coroutine stands at: [pc, query, entry, response]
    plugin,                 \* the BasePlugin object, with the place the plugin thread
                            \* stands at in the callback it runs
    threads                 \* the server threads started so far, each with the place
                            \* it stands at: [pc]

vars == <<now, domoticz_oauth_client, oauth_config, external_bridge_base,
          redirect_bridge_map, recent_auth_codes, request, response, nreq,
          bridge_log, calls, proxy_log, tasks, plugin, threads>>

\* ---- responses ------------------------------------------------------------

\* a response without a structured body
NoBody == [none |-> TRUE]

\* web.json_response({"error": msg}, status=status)
JsonError(msg, status) ==
    [status |-> status, kind |-> "json", text |-> msg, location |-> None, body |-> NoBody, www_authenticate |-> ""]

\* web.Response(text=msg, status=status)
TextResponse(msg, status) ==
    [status |-> status, kind |-> "text", text |-> msg, location |-> None, body |-> NoBody, www_authenticate |-> ""]

\* raise web.HTTPFound(location=target)
HTTPFound(target) ==
    [status |-> 302, kind |-> "redirect", text |-> "", location |-> target, body |-> NoBody, www_authenticate |-> ""]

\* web.Response(text=body, content_type='text/html'): the debug page, whose
\* script redirects the browser to forward
HtmlPage(forward) ==
    [status |-> 200, kind |-> "html", text |-> "Authorization Complete", location |-> forward,
     body |-> NoBody, www_authenticate |-> ""]

\* no downstream call is made
NoAnswer == [status |-> 0, json_ok |-> FALSE, doc |-> <<>>]

\* the downstream's answer to the call a handler makes for the request itself
\* (the POST of /token, the GET of a tool): none
NoReply == [status |-> 0, json_ok |-> FALSE, body |-> <<>>]

NoRequest == [path |-> "", query |-> <<>>, answer |-> NoAnswer, reply |-> NoReply]
NoResponse == [status |-> 0, kind |-> "", text |-> "", location |-> None, body |-> NoBody, www_authenticate |-> ""]

\* ---- DomoticzOAuthClient --------------------------------------------------

\* self.domoticz_base_url
domoticz_base_url == RStripSlash(BaseUrl)

\* the body of the loop of _normalize for a key whose url parses to parsed
NormalizeParsed(cfg, key, parsed, target_netloc) ==
    IF /\ parsed.netloc # target_netloc
       /\ StartsWith(IF hostname(parsed.netloc) = None THEN <<>> ELSE hostname(parsed.netloc),
                     DomoticzLocal)
    THEN Set(cfg, key, urlunparse(parsed.scheme, target_netloc, parsed.path,
                                  parsed.params, parsed.query, parsed.fragment))
    ELSE cfg

\* one iteration of the loop of _normalize
NormalizeKey(cfg, key) ==
    IF ~Truthy(Get(cfg, key)) THEN cfg
    ELSE NormalizeParsed(cfg, key, urlparse(Get(cfg, key)), urlparse(domoticz_base_url).netloc)

\* urlsplit raises ValueError('Invalid IPv6 URL') for a netloc with one of
\* '[' and ']' and not the other
UrlParseRaises(url) ==
    Contains(urlparse(url).netloc, "[") # Contains(urlparse(url).netloc, "]")

\* the iteration of the loop of _normalize for key raises
NormalizeRaises(cfg, key) == Truthy(Get(cfg, key)) /\ UrlParseRaises(Get(cfg, key))

\* the loop runs inside one try: the first url that does not parse ends it,
\* with the keys before it rewritten and the ones after it untouched
_normalize(cfg) ==
    IF ~TruthyDict(cfg) \/ UrlParseRaises(domoticz_base_url) THEN cfg
    ELSE IF NormalizeRaises(cfg, K_authorization_endpoint) THEN cfg
    ELSE IF NormalizeRaises(cfg, K_token_endpoint)
    THEN NormalizeKey(cfg, K_authorization_endpoint)
    ELSE IF NormalizeRaises(cfg, K_issuer)
    THEN NormalizeKey(NormalizeKey(cfg, K_authorization_endpoint), K_token_endpoint)
    ELSE NormalizeKey(NormalizeKey(NormalizeKey(cfg, K_authorization_endpoint),
                                   K_token_endpoint), K_issuer)

\* well_known_url = f"{self.domoticz_base_url}/.well-known/openid-configuration"
WellKnownPath == <<"/",".","w","e","l","l","-","k","n","o","w","n","/","o","p","e","n","i","d","-","c","o","n","f","i","g","u","r","a","t","i","o","n">>

\* a downstream HTTP call: GET or POST of url with data (query parameters or
\* form fields) and the bearer credential of its Authorization header
Call(kind, url, data, bearer) == [kind |-> kind, url |-> url, data |-> data, bearer |-> bearer]

\* self.session.get(well_known_url, timeout=10)
DiscoveryCall == Call("discovery", domoticz_base_url \o WellKnownPath, <<>>, None)

\* the calls of a handler that discovers when it has a client and no config
DiscoveryCalls ==
    IF domoticz_oauth_client /\ ~TruthyDict(oauth_config) THEN <<DiscoveryCall>> ELSE <<>>

\* discover_oauth_endpoints storing the document whatever the status is
discover_oauth_endpoints_StoreAlways(cfg, r) ==
    IF r.status = 200 /\ r.json_ok
    THEN [ok |-> TRUE, oauth_config |-> _normalize(r.doc)]
    ELSE [ok |-> FALSE, oauth_config |-> << <<K_issuer, domoticz_base_url>> >>]

\* discover_oauth_endpoints against the downstream answer r =
\* [status, json_ok, doc]; status 0 stands for session.get raising.
\* The result is the returned bool and the value of self.oauth_config.
discover_oauth_endpoints(cfg, r) ==
    IF r.status = 200 /\ r.json_ok
    THEN [ok |-> TRUE, oauth_config |-> _normalize(r.doc)]
    ELSE [ok |-> FALSE, oauth_config |-> cfg]

\* ---- redirect bridge store ------------------------------------------------

\* the sweep with an inclusive cutoff: it also deletes entries exactly TTL old
_purge_redirect_bridge_Inclusive(map, t) ==
    LET cutoff == t - redirect_bridge_ttl
        to_del == { k \in DOMAIN map : map[k].ts <= cutoff }
    IN  [k \in DOMAIN map \ to_del |-> map[k]]

\* no sweep at all
_purge_redirect_bridge_Never(map, t) == map

_purge_redirect_bridge(map, t) ==
    LET cutoff == t - redirect_bridge_ttl
        to_del == { k \in DOMAIN map : map[k].ts < cutoff }
    IN  [k \in DOMAIN map \ to_del |-> map[k]]

\* self.redirect_bridge_map[state] = {"redirect": orig_redirect, "ts": time.time()}
BridgePut(map, state, orig_redirect, t) ==
    [k \in DOMAIN map \cup {state} |->
        IF k = state THEN [redirect |-> orig_redirect, ts |-> t] ELSE map[k]]

\* the entry read but not removed (get instead of pop)
BridgePop_Keep(map, state) == map

\* self.redirect_bridge_map.pop(state): the map without state
BridgePop(map, state) == [k \in DOMAIN map \ {state} |-> map[k]]

\* ---- GET /authorize -------------------------------------------------------

\* the bridge condition without its loopback test: any redirect_uri engages
BridgeCondition_AnyRedirect(orig_redirect) ==
    /\ redirect_bridge_enabled
    /\ Truthy(external_bridge_base)
    /\ Truthy(orig_redirect)

\* the loopback test alone, without the test of the bridge base
BridgeCondition_NoBaseCheck(orig_redirect) ==
    /\ redirect_bridge_enabled
    /\ Truthy(orig_redirect)
    /\ (StartsWith(orig_redirect, HttpLoopbackIp) \/ StartsWith(orig_redirect, HttpLocalhost))
    /\ ~StartsWith(orig_redirect, Https)

\* the condition of the bridge logic of proxy_authorize
BridgeCondition(orig_redirect) ==
    /\ redirect_bridge_enabled
    /\ Truthy(external_bridge_base)
    /\ Truthy(orig_redirect)
    /\ (StartsWith(orig_redirect, HttpLoopbackIp) \/ StartsWith(orig_redirect, HttpLocalhost))
    /\ ~StartsWith(orig_redirect, Https)

\* state = qp.get('state') or f"st_{int(time.time()*1000)}"
BridgeState(qp, t) ==
    IF Truthy(Get(qp, K_state)) THEN Get(qp, K_state) ELSE StPrefix \o Decimal(t * 1000)

\* the bridge logic without qp['state'] = state
BridgeParams_NoState(qp, t) ==
    IF BridgeCondition(Get(qp, K_redirect_uri))
    THEN Set(qp, K_redirect_uri, RStripSlash(external_bridge_base) \o RedirectBridgePath)
    ELSE qp

\* qp after the bridge logic: state set, redirect_uri swapped for the bridge
BridgeParams(qp, t) ==
    IF BridgeCondition(Get(qp, K_redirect_uri))
    THEN Set(Set(qp, K_state, BridgeState(qp, t)),
             K_redirect_uri, RStripSlash(external_bridge_base) \o RedirectBridgePath)
    ELSE qp

\* the parameters forwarded as they are
StripSecret_Keep(qp) == qp

\* if 'client_secret' in qp: qp.pop('client_secret')
StripSecret(qp) == IF K_client_secret \in Keys(qp) THEN Pop(qp, K_client_secret) ELSE qp

\* target = auth_ep + ('?' + urllib.parse.urlencode(qp) if qp else '')
AuthorizeTarget(auth_ep, qp) ==
    auth_ep \o (IF qp # <<>> THEN <<"?">> \o urlencode(qp) ELSE <<>>)

\* proxy_authorize storing the original redirect_uri of every loopback
\* request, whether or not a bridge base is there to rewrite it to
proxy_authorize_StoreWithoutBase(query, r) ==
    LET needs   == ~TruthyDict(oauth_config)
        disc    == discover_oauth_endpoints(oauth_config, r)
        cfg     == IF needs THEN disc.oauth_config ELSE oauth_config
        auth_ep == Get(cfg, K_authorization_endpoint)
        qp      == Dict(query)
        orig_redirect == Get(qp, K_redirect_uri)
        engaged == BridgeCondition_NoBaseCheck(orig_redirect)
        state   == BridgeState(qp, now)
        map     == IF engaged
                   THEN BridgePut(_purge_redirect_bridge(redirect_bridge_map, now),
                                  state, orig_redirect, now)
                   ELSE redirect_bridge_map
        target  == AuthorizeTarget(auth_ep, StripSecret(BridgeParams(qp, now)))
        fail(msg, c) == [response |-> JsonError(msg, 500), oauth_config |-> c,
                         map |-> redirect_bridge_map, engaged |-> FALSE]
    IN  IF ~domoticz_oauth_client THEN fail("OAuth client not configured", oauth_config)
        ELSE IF needs /\ ~disc.ok THEN fail("OAuth discovery failed", cfg)
        ELSE IF ~Truthy(auth_ep) THEN fail("authorization_endpoint missing", cfg)
        ELSE [response |-> HTTPFound(target), oauth_config |-> cfg,
              map |-> map, engaged |-> engaged]

\* proxy_authorize running the bridge logic before it has checked the
\* configuration
proxy_authorize_BridgeFirst(query, r) ==
    LET needs   == ~TruthyDict(oauth_config)
        disc    == discover_oauth_endpoints(oauth_config, r)
        cfg     == IF needs THEN disc.oauth_config ELSE oauth_config
        auth_ep == IF TruthyDict(cfg) THEN Get(cfg, K_authorization_endpoint) ELSE None
        qp      == Dict(query)
        orig_redirect == Get(qp, K_redirect_uri)
        engaged == BridgeCondition(orig_redirect)
        state   == BridgeState(qp, now)
        map     == IF engaged
                   THEN BridgePut(_purge_redirect_bridge(redirect_bridge_map, now),
                                  state, orig_redirect, now)
                   ELSE redirect_bridge_map
        target  == AuthorizeTarget(auth_ep, StripSecret(BridgeParams(qp, now)))
        fail(msg, c) == [response |-> JsonError(msg, 500), oauth_config |-> c,
                         map |-> map, engaged |-> engaged]
    IN  IF ~domoticz_oauth_client THEN fail("OAuth client not configured", oauth_config)
        ELSE IF needs /\ ~disc.ok THEN fail("OAuth discovery failed", cfg)
        ELSE IF ~Truthy(auth_ep) THEN fail("authorization_endpoint missing", cfg)
        ELSE [response |-> HTTPFound(target), oauth_config |-> cfg,
              map |-> map, engaged |-> engaged]

\* proxy_authorize on the query parameters query, with r the downstream's
\* answer to a discovery (used only when the handler runs one): the
\* response, and the values the handler leaves in oauth_config and
\* redirect_bridge_map; engaged tells whether the bridge logic ran.
proxy_authorize(query, r) ==
    LET needs   == ~TruthyDict(oauth_config)
        disc    == discover_oauth_endpoints(oauth_config, r)
        cfg     == IF needs THEN disc.oauth_config ELSE oauth_config
        auth_ep == Get(cfg, K_authorization_endpoint)
        qp      == Dict(query)
        orig_redirect == Get(qp, K_redirect_uri)
        engaged == BridgeCondition(orig_redirect)
        state   == BridgeState(qp, now)
        map     == IF engaged
                   THEN BridgePut(_purge_redirect_bridge(redirect_bridge_map, now),
                                  state, orig_redirect, now)
                   ELSE redirect_bridge_map
        target  == AuthorizeTarget(auth_ep, StripSecret(BridgeParams(qp, now)))
        fail(msg, c) == [response |-> JsonError(msg, 500), oauth_config |-> c,
                         map |-> redirect_bridge_map, engaged |-> FALSE]
    IN  IF ~domoticz_oauth_client THEN fail("OAuth client not configured", oauth_config)
        ELSE IF needs /\ ~disc.ok THEN fail("OAuth discovery failed", cfg)
        ELSE IF ~Truthy(auth_ep) THEN fail("authorization_endpoint missing", cfg)
        ELSE [response |-> HTTPFound(target), oauth_config |-> cfg,
              map |-> map, engaged |-> engaged]

\* what a run of proxy_authorize does to the server
AuthorizeRun(query, r) ==
    /\ LET res == proxy_authorize(query, r)
       IN  /\ response' = res.response
           /\ oauth_config' = res.oauth_config
           /\ redirect_bridge_map' = res.map
           /\ bridge_log' =
                IF res.engaged
                THEN Append(bridge_log,
                            [op |-> "put", state |-> BridgeState(Dict(query), now),
                             redirect |-> Get(Dict(query), K_redirect_uri),
                             ts |-> now, n |-> nreq + 1])
                ELSE bridge_log
    /\ request' = [path |-> "/authorize", query |-> query, answer |-> r, reply |-> NoReply]
    /\ calls' = DiscoveryCalls
    /\ proxy_log' = <<>>
    /\ nreq' = nreq + 1
    /\ UNCHANGED <<plugin, threads, now, domoticz_oauth_client, external_bridge_base, recent_auth_codes>>

Authorize(query, r) ==
    /\ AuthorizeRun(query, r)
    /\ UNCHANGED tasks

\* ---- GET /redirect_bridge -------------------------------------------------

\* the truncation keeping the oldest records instead of the newest
LastN_KeepFirst(seq, n) == IF Len(seq) > n THEN SubSeq(seq, 1, n) ELSE seq

\* self.recent_auth_codes[-self.recent_codes_limit:]
LastN(seq, n) == IF Len(seq) > n THEN SubSeq(seq, Len(seq) - n + 1, Len(seq)) ELSE seq

\* ForwardUrl with the separator chosen wrongly: always '&'
ForwardUrl_AlwaysAmp(orig, code, error, state) ==
    LET payload == IF Truthy(code) THEN CodeEq \o quote(code)
                   ELSE ErrorEq \o quote(IF Truthy(error) THEN error ELSE UnknownError)
    IN  orig \o <<"&">> \o payload
             \o (IF Truthy(state) THEN AmpStateEq \o quote(state) ELSE <<>>)

\* ForwardUrl letting an error take precedence over a code
ForwardUrl_ErrorFirst(orig, code, error, state) ==
    LET sep == IF Contains(orig, "?") THEN <<"&">> ELSE <<"?">>
        payload == IF Truthy(error) THEN ErrorEq \o quote(error)
                   ELSE IF Truthy(code) THEN CodeEq \o quote(code)
                   ELSE ErrorEq \o quote(UnknownError)
    IN  orig \o sep \o payload
             \o (IF Truthy(state) THEN AmpStateEq \o quote(state) ELSE <<>>)

\* forward = orig + sep + (code=... | error=...) [+ &state=...]
ForwardUrl(orig, code, error, state) ==
    LET sep == IF Contains(orig, "?") THEN <<"&">> ELSE <<"?">>
        payload == IF Truthy(code) THEN CodeEq \o quote(code)
                   ELSE ErrorEq \o quote(IF Truthy(error) THEN error ELSE UnknownError)
    IN  orig \o sep \o payload
             \o (IF Truthy(state) THEN AmpStateEq \o quote(state) ELSE <<>>)

\* redirect_bridge_handler appending its record before it looks the state up
redirect_bridge_handler_RecordFirst(query) ==
    LET params == Dict(query)
        code   == Get(params, K_code)
        error  == Get(params, K_error)
        state  == Get(params, K_state)
        known  == Truthy(state) /\ state \in DOMAIN redirect_bridge_map
        orig   == IF known THEN redirect_bridge_map[state].redirect ELSE None
        record == [ts |-> now, state |-> state, code |-> code, full_code_logged |-> TRUE,
                   error |-> error, forward_target |-> orig]
        recent == LastN(Append(recent_auth_codes, record), recent_codes_limit)
    IN  IF ~known
        THEN [response |-> TextResponse("Redirect bridge state unknown or expired", 400),
              map |-> redirect_bridge_map, recent |-> recent, taken |-> FALSE]
        ELSE [response |-> HTTPFound(ForwardUrl(orig, code, error, state)),
              map |-> BridgePop(redirect_bridge_map, state),
              recent |-> recent, taken |-> TRUE]

\* redirect_bridge_handler on the query parameters query: the response and
\* the values left in redirect_bridge_map and recent_auth_codes; taken tells
\* whether the entry was popped.
redirect_bridge_handler(query) ==
    LET params == Dict(query)
        code   == Get(params, K_code)
        error  == Get(params, K_error)
        state  == Get(params, K_state)
        entry  == redirect_bridge_map[state]
        orig   == entry.redirect
        record == [ts |-> now, state |-> state, code |-> code, full_code_logged |-> TRUE,
                   error |-> error, forward_target |-> orig]
        forward == ForwardUrl(orig, code, error, state)
    IN  IF ~Truthy(state) \/ state \notin DOMAIN redirect_bridge_map
        THEN [response |-> TextResponse("Redirect bridge state unknown or expired", 400),
              map |-> redirect_bridge_map, recent |-> recent_auth_codes, taken |-> FALSE]
        ELSE [response |->
                IF ~Truthy(orig) \/ ~(StartsWith(orig, HttpLoopbackIp) \/ StartsWith(orig, HttpLocalhost))
                THEN TextResponse("Original redirect invalid", 400)
                ELSE IF debug_bridge_page THEN HtmlPage(forward)
                ELSE HTTPFound(forward),
              map |-> BridgePop(redirect_bridge_map, state),
              recent |-> LastN(Append(recent_auth_codes, record), recent_codes_limit),
              taken |-> TRUE]

\* what a run of redirect_bridge_handler that came to res does to the server
RedirectBridgeRun(query, res) ==
    /\ response' = res.response
    /\ redirect_bridge_map' = res.map
    /\ recent_auth_codes' = res.recent
    /\ bridge_log' =
         IF res.taken
         THEN Append(bridge_log,
                     [op |-> "take", state |-> Get(Dict(query), K_state),
                      redirect |-> redirect_bridge_map[Get(Dict(query), K_state)].redirect,
                      ts |-> now, n |-> nreq + 1])
         ELSE bridge_log
    /\ request' = [path |-> "/redirect_bridge", query |-> query, answer |-> NoAnswer,
                   reply |-> NoReply]
    /\ calls' = <<>>
    /\ proxy_log' = <<>>
    /\ nreq' = nreq + 1
    /\ UNCHANGED <<plugin, threads, now, domoticz_oauth_client, oauth_config, external_bridge_base>>

RedirectBridge(query) ==
    /\ RedirectBridgeRun(query, redirect_bridge_handler(query))
    /\ UNCHANGED tasks

\* ---- GET /redirect_bridge as a task of the event loop ---------------------------

\* the server creates a task for a received callback; the event loop has not
\* run it yet
Arrive(query) ==
    /\ Len(tasks) < MaxCallbacks
    /\ tasks' = Append(tasks, [pc |-> "scheduled", query |-> query,
                               response |-> NoResponse, n |-> 0])
    /\ UNCHANGED <<plugin, threads, now, domoticz_oauth_client, oauth_config, external_bridge_base,
                   redirect_bridge_map, recent_auth_codes, request, response, nreq,
                   bridge_log, calls, proxy_log>>

\* a handler that awaits between the membership check and the pop: the run
\* from the first line stops after the check, the next one pops, and a pop
\* that finds no entry raises KeyError, answered 500
redirect_bridge_resume_AwaitAfterCheck(task) ==
    LET state == Get(Dict(task.query), K_state)
        res   == redirect_bridge_handler(task.query)
        idle(resp) == [response |-> resp, map |-> redirect_bridge_map,
                           recent |-> recent_auth_codes, taken |-> FALSE]
    IN  IF task.pc = "scheduled"
        THEN IF ~Truthy(state) \/ state \notin DOMAIN redirect_bridge_map
             THEN [pc |-> "done", res |-> res]
             ELSE [pc |-> "checked", res |-> idle(NoResponse)]
        ELSE IF state \in DOMAIN redirect_bridge_map
             THEN [pc |-> "done", res |-> res]
             ELSE [pc |-> "done", res |-> idle(TextResponse("Redirect bridge failure", 500))]

\* one run of a task by the event loop, from its position to its next await
\* or its return: redirect_bridge_handler has no await, so the run that
\* starts it also ends it
redirect_bridge_resume(task) ==
    [pc |-> "done", res |-> redirect_bridge_handler(task.query)]

\* the event loop runs task i
Resume(i) ==
    /\ tasks[i].pc # "done"
    /\ LET run == redirect_bridge_resume(tasks[i])
       IN  /\ RedirectBridgeRun(tasks[i].query, run.res)
           /\ tasks' = [tasks EXCEPT ![i] = [pc |-> run.pc, query |-> tasks[i].query,
                                             response |-> run.res.response,
                                             n |-> nreq + 1]]

\* ---- POST /token -----------------------------------------------------------

K_grant_type == <<"g","r","a","n","t","_","t","y","p","e">>  \* 'grant_type'
V_authorization_code == <<"a","u","t","h","o","r","i","z","a","t","i","o","n","_","c","o","d","e">>  \* 'authorization_code'
TokenJson == <<"{","\"","a","c","c","e","s","s","_","t","o","k","e","n","\"",":","\"","T","\"","}">>  \* '{"access_token":"T"}'
TokenErrorJson == <<"{","\"","e","r","r","o","r","\"",":","\"","i","n","v","a","l","i","d","_","g","r","a","n","t","\"","}">>  \* '{"error":"invalid_grant"}'
TokenHtml == <<"<","h","t","m","l",">">>  \* '<html>'

\* resp.text[:200]
RawLimit == 200
Take(s, n) == IF Len(s) > n THEN SubSeq(s, 1, n) ELSE s

\* whether the string w occurs in the string s (w in s)
HasSub(s, w) == \E i \in 1..(Len(s) - Len(w) + 1) : SubSeq(s, i, i + Len(w) - 1) = w

\* the words of the redaction of the form (line 235) and of the body (line 245)
RequestWords ==
    { <<"s","e","c","r","e","t">>, <<"t","o","k","e","n">>, <<"c","o","d","e">>,
      <<"a","s","s","e","r","t","i","o","n">>, <<"p","a","s","s","w","o","r","d">> }
ResponseWords ==
    { <<"s","e","c","r","e","t">>, <<"t","o","k","e","n">>, <<"i","d","_","t","o","k","e","n">>,
      <<"r","e","f","r","e","s","h">>, <<"a","c","c","e","s","s">> }

\* any(s in k.lower() for s in words)
Sensitive(k, words) == \E w \in words : HasSub(Lower(k), w)

Stars == <<"*","*","*">>  \* '***'
K_raw == <<"r","a","w">>  \* 'raw'

\* {k: ('***' if any(s in k.lower() for s in words) else v) for k,v in d.items()}
Redact(d, words) ==
    [i \in DOMAIN d |-> <<d[i][1], IF Sensitive(d[i][1], words) THEN Stars ELSE d[i][2]>>]

\* the dict of the form as the handler logs it
safe_log(form_data) == Redact(form_data, RequestWords)

\* the dict of the body as the handler logs it
safe_resp(data) == Redact(data, ResponseWords)

\* data of proxy_token for the reply t = [status, json_ok, body, doc]:
\* resp.json() (doc, the dict the body parses to) or {'raw': resp.text[:200]}
TokenData(t) == IF t.json_ok THEN t.doc ELSE << <<K_raw, Take(t.body, RawLimit)>> >>

\* the Debug lines of proxy_token that carry the form and the body
TokenLog(form_data, t) ==
    << [line |-> "data", fields |-> safe_log(form_data)] >>
        \o (IF t.status = 0 THEN <<>>
            ELSE << [line |-> "body", fields |-> safe_resp(TokenData(t))] >>)

\* the response of proxy_token with the status of the downstream dropped
TokenResponse_Always200(t) ==
    [status |-> 200, kind |-> "json", text |-> "", location |-> None,
     body |-> IF t.json_ok THEN [json |-> t.body] ELSE [raw |-> Take(t.body, RawLimit)],
     www_authenticate |-> ""]

\* web.json_response(data, status=resp.status_code) for the downstream reply
\* t = [status, json_ok, body, doc]: data is resp.json() when the body parses
\* and {'raw': resp.text[:200]} otherwise
TokenResponse(t) ==
    [status |-> t.status, kind |-> "json", text |-> "", location |-> None,
     body |-> IF t.json_ok THEN [json |-> t.body] ELSE [raw |-> Take(t.body, RawLimit)],
     www_authenticate |-> ""]

\* requests.post(token_ep, data=form_data, ...)
TokenCall(token_ep, form_data) == Call("token", token_ep, form_data, None)

\* proxy_token on the form fields form, with r the downstream's answer to a
\* discovery (used only when the handler runs one) and t its reply to the
\* POST (status 0: the POST raises): the response, the value left in
\* oauth_config and the downstream calls made.
proxy_token(form, r, t) ==
    LET needs    == ~TruthyDict(oauth_config)
        disc     == discover_oauth_endpoints(oauth_config, r)
        cfg      == IF needs THEN disc.oauth_config ELSE oauth_config
        token_ep == Get(cfg, K_token_endpoint)
        fail(msg, c) == [response |-> JsonError(msg, 500), oauth_config |-> c,
                         calls |-> DiscoveryCalls, log |-> <<>>]
    IN  IF ~domoticz_oauth_client THEN fail("OAuth client not configured", oauth_config)
        ELSE IF needs /\ ~disc.ok THEN fail("OAuth discovery failed", cfg)
        ELSE IF ~Truthy(token_ep) THEN fail("token_endpoint missing", cfg)
        ELSE [response |-> IF t.status = 0 THEN JsonError("str(e)", 500) ELSE TokenResponse(t),
              oauth_config |-> cfg,
              calls |-> DiscoveryCalls \o <<TokenCall(token_ep, Dict(form))>>,
              log |-> TokenLog(Dict(form), t)]

\* the handler gets a reply from the token endpoint exactly when it posts
\* what a run of proxy_token does to the server
TokenRun(form, r, t) ==
    /\ LET res == proxy_token(form, r, t)
       IN  /\ (t = NoReply) <=> (\A i \in DOMAIN res.calls : res.calls[i].kind # "token")
           /\ response' = res.response
           /\ oauth_config' = res.oauth_config
           /\ calls' = res.calls
           /\ proxy_log' = res.log
    /\ request' = [path |-> "/token", query |-> form, answer |-> r, reply |-> t]
    /\ nreq' = nreq + 1
    /\ UNCHANGED <<plugin, threads, now, domoticz_oauth_client, external_bridge_base, redirect_bridge_map,
                   recent_auth_codes, bridge_log>>

Token(form, r, t) ==
    /\ TokenRun(form, r, t)
    /\ UNCHANGED tasks

\* ---- JSON values ----------------------------------------------------------------

\* a parsed JSON value, as Python holds it: None, a str, an int, a bool, a
\* list, or a dict (a function from its keys to values)
JNull == [t |-> "null"]
JStr(s) == [t |-> "str", s |-> s]
JNum(n) == [t |-> "num", n |-> n]
JBool(b) == [t |-> "bool", b |-> b]
JArr == [t |-> "arr"]
JObj(f) == [t |-> "obj", o |-> f]
EmptyDict == JObj(<<>>)

\* an f-string: the text followed by the rendering of a value
JFmt(text, value) == [t |-> "str", s |-> text, arg |-> value]

\* str(value)
StrOf(value) == [t |-> "str", of |-> value]

\* whether d has a method get (is a dict)
IsDict(d) == d.t = "obj"

\* d.get(key, default)
PyGet(d, key, default) == IF key \in DOMAIN d.o THEN d.o[key] ELSE default

\* bool(value)
PyTruthy(value) ==
    CASE value.t = "null" -> FALSE
      [] value.t = "num" -> value.n # 0
      [] value.t = "bool" -> value.b
      [] value.t = "arr" -> FALSE
      [] value.t = "obj" -> DOMAIN value.o # {}
      [] OTHER -> "of" \in DOMAIN value \/ "arg" \in DOMAIN value \/ value.s # ""

\* ---- DomoticzOAuthClient.make_authenticated_request -------------------------

JsonHtmPath == <<"/","j","s","o","n",".","h","t","m">>  \* '/json.htm'

\* self.session.get(api_endpoint, params=params, headers=headers, timeout=10)
ApiCall(access_token, params) ==
    Call("api", domoticz_base_url \o JsonHtmPath, params, access_token)

\* make_authenticated_request without its branch for 401
make_authenticated_request_No401(reply) ==
    IF reply.status = 0
    THEN JObj([error |-> JStr("Domoticz OAuth API call error: {e}")])
    ELSE IF reply.status = 200
    THEN (IF reply.json_ok THEN reply.body
          ELSE JObj([error |-> JStr("Invalid JSON response: {je}")]))
    ELSE JObj([error |-> JFmt("Domoticz API call failed: ", JNum(reply.status))])

\* make_authenticated_request handing on the body of a reply that is no
\* 200 with JSON instead of an error value
make_authenticated_request_PassBody(reply) ==
    IF reply.status = 200 /\ reply.json_ok THEN reply.body
    ELSE IF reply.status = 401
    THEN JObj([error |-> JStr("OAuth token expired or invalid"), status_code |-> JNum(401)])
    ELSE reply.body

\* the value make_authenticated_request returns when the downstream replies
\* reply = [status, json_ok, body] (status 0: session.get raises)
make_authenticated_request(reply) ==
    IF reply.status = 0
    THEN JObj([error |-> JStr("Domoticz OAuth API call error: {e}")])
    ELSE IF reply.status = 200
    THEN (IF reply.json_ok THEN reply.body
          ELSE JObj([error |-> JStr("Invalid JSON response: {je}")]))
    ELSE IF reply.status = 401
    THEN JObj([error |-> JStr("OAuth token expired or invalid"), status_code |-> JNum(401)])
    ELSE JObj([error |-> JFmt("Domoticz API call failed: ", JNum(reply.status))])

\* ---- POST /mcp --------------------------------------------------------------

BearerPrefix == <<"B","e","a","r","e","r"," ">>  \* 'Bearer '

EmptySchema ==
    [type |-> "object", properties |-> {}, required |-> <<>>, additionalProperties |-> FALSE]

\* the list without its last tool
get_available_tools_NoLog ==
    << [name |-> "domoticz_get_version", inputSchema |-> EmptySchema],
       [name |-> "domoticz_list_devices",
        inputSchema |-> [type |-> "object", properties |-> {"filter", "used"},
                         required |-> <<>>, additionalProperties |-> FALSE]],
       [name |-> "domoticz_device_status",
        inputSchema |-> [type |-> "object", properties |-> {"idx"},
                         required |-> <<"idx">>, additionalProperties |-> FALSE]],
       [name |-> "domoticz_list_scenes", inputSchema |-> EmptySchema] >>

get_available_tools ==
    << [name |-> "domoticz_get_version", inputSchema |-> EmptySchema],
       [name |-> "domoticz_list_devices",
        inputSchema |-> [type |-> "object", properties |-> {"filter", "used"},
                         required |-> <<>>, additionalProperties |-> FALSE]],
       [name |-> "domoticz_device_status",
        inputSchema |-> [type |-> "object", properties |-> {"idx"},
                         required |-> <<"idx">>, additionalProperties |-> FALSE]],
       [name |-> "domoticz_list_scenes", inputSchema |-> EmptySchema],
       [name |-> "domoticz_get_log",
        inputSchema |-> [type |-> "object", properties |-> {"log_type"},
                         required |-> <<>>, additionalProperties |-> FALSE]] >>

Command(param) == [type |-> JStr("command"), param |-> JStr(param)]

\* a dict with one more key
With(d, key, value) == [k \in DOMAIN d \cup {key} |-> IF k = key THEN value ELSE d[k]]

\* {"error": f"Tool execution failed: {e}"}
ToolExecutionFailed == JObj([error |-> JStr("Tool execution failed: {e}")])

\* ToolRequest without the test of idx
ToolRequest_NoIdxCheck(name, arguments) ==
    IF name = JStr("domoticz_get_version") THEN [params |-> Command("getversion")]
    ELSE IF name = JStr("domoticz_list_devices")
    THEN IF ~IsDict(arguments) THEN [result |-> ToolExecutionFailed]
         ELSE [params |->
                 IF PyTruthy(PyGet(arguments, "used", JBool(TRUE)))
                 THEN With(With(Command("getdevices"), "filter",
                                PyGet(arguments, "filter", JStr("all"))),
                           "used", JStr("true"))
                 ELSE With(Command("getdevices"), "filter",
                           PyGet(arguments, "filter", JStr("all")))]
    ELSE IF name = JStr("domoticz_device_status")
    THEN IF ~IsDict(arguments) THEN [result |-> ToolExecutionFailed]
         ELSE [params |-> With(Command("getdevices"), "rid",
                               StrOf(PyGet(arguments, "idx", JNull)))]
    ELSE IF name = JStr("domoticz_list_scenes") THEN [params |-> Command("getscenes")]
    ELSE IF name = JStr("domoticz_get_log")
    THEN IF ~IsDict(arguments) THEN [result |-> ToolExecutionFailed]
         ELSE [params |-> With(Command("getlog"), "log",
                               PyGet(arguments, "log_type", JStr("status")))]
    ELSE [result |-> JObj([error |-> JFmt("Unknown tool: ", name)])]

\* ToolRequest running the version command for a name it does not know
ToolRequest_UnknownAsVersion(name, arguments) ==
    IF name = JStr("domoticz_list_devices")
    THEN IF ~IsDict(arguments) THEN [result |-> ToolExecutionFailed]
         ELSE [params |->
                 IF PyTruthy(PyGet(arguments, "used", JBool(TRUE)))
                 THEN With(With(Command("getdevices"), "filter",
                                PyGet(arguments, "filter", JStr("all"))),
                           "used", JStr("true"))
                 ELSE With(Command("getdevices"), "filter",
                           PyGet(arguments, "filter", JStr("all")))]
    ELSE IF name = JStr("domoticz_device_status")
    THEN IF ~IsDict(arguments) THEN [result |-> ToolExecutionFailed]
         ELSE IF ~PyTruthy(PyGet(arguments, "idx", JNull))
         THEN [result |-> JObj([error |-> JStr("idx parameter is required")])]
         ELSE [params |-> With(Command("getdevices"), "rid",
                               StrOf(PyGet(arguments, "idx", JNull)))]
    ELSE IF name = JStr("domoticz_list_scenes") THEN [params |-> Command("getscenes")]
    ELSE IF name = JStr("domoticz_get_log")
    THEN IF ~IsDict(arguments) THEN [result |-> ToolExecutionFailed]
         ELSE [params |-> With(Command("getlog"), "log",
                               PyGet(arguments, "log_type", JStr("status")))]
    ELSE [params |-> Command("getversion")]

\* the downstream request of the tool name, or what the tool returns without
\* making one: [params] resp. [result]
ToolRequest(name, arguments) ==
    IF name = JStr("domoticz_get_version") THEN [params |-> Command("getversion")]
    ELSE IF name = JStr("domoticz_list_devices")
    THEN IF ~IsDict(arguments) THEN [result |-> ToolExecutionFailed]
         ELSE [params |->
                 IF PyTruthy(PyGet(arguments, "used", JBool(TRUE)))
                 THEN With(With(Command("getdevices"), "filter",
                                PyGet(arguments, "filter", JStr("all"))),
                           "used", JStr("true"))
                 ELSE With(Command("getdevices"), "filter",
                           PyGet(arguments, "filter", JStr("all")))]
    ELSE IF name = JStr("domoticz_device_status")
    THEN IF ~IsDict(arguments) THEN [result |-> ToolExecutionFailed]
         ELSE IF ~PyTruthy(PyGet(arguments, "idx", JNull))
         THEN [result |-> JObj([error |-> JStr("idx parameter is required")])]
         ELSE [params |-> With(Command("getdevices"), "rid",
                               StrOf(PyGet(arguments, "idx", JNull)))]
    ELSE IF name = JStr("domoticz_list_scenes") THEN [params |-> Command("getscenes")]
    ELSE IF name = JStr("domoticz_get_log")
    THEN IF ~IsDict(arguments) THEN [result |-> ToolExecutionFailed]
         ELSE [params |-> With(Command("getlog"), "log",
                               PyGet(arguments, "log_type", JStr("status")))]
    ELSE [result |-> JObj([error |-> JFmt("Unknown tool: ", name)])]

\* execute_domoticz_tool repeating its downstream call after a 401
execute_domoticz_tool_RetryOn401(name, arguments, access_token, reply) ==
    IF ~domoticz_oauth_client
    THEN [result |-> JObj([error |-> JStr("Domoticz OAuth client not configured")]),
          calls |-> <<>>]
    ELSE IF "result" \in DOMAIN ToolRequest(name, arguments)
    THEN [result |-> ToolRequest(name, arguments).result, calls |-> <<>>]
    ELSE [result |-> make_authenticated_request(reply),
          calls |-> IF reply.status = 401
                    THEN <<ApiCall(access_token, ToolRequest(name, arguments).params),
                           ApiCall(access_token, ToolRequest(name, arguments).params)>>
                    ELSE <<ApiCall(access_token, ToolRequest(name, arguments).params)>>]

\* execute_domoticz_tool with reply the downstream's reply to the call it
\* makes, if it makes one: the value returned and the downstream calls
execute_domoticz_tool(name, arguments, access_token, reply) ==
    IF ~domoticz_oauth_client
    THEN [result |-> JObj([error |-> JStr("Domoticz OAuth client not configured")]),
          calls |-> <<>>]
    ELSE IF "result" \in DOMAIN ToolRequest(name, arguments)
    THEN [result |-> ToolRequest(name, arguments).result, calls |-> <<>>]
    ELSE [result |-> make_authenticated_request(reply),
          calls |-> <<ApiCall(access_token, ToolRequest(name, arguments).params)>>]

\* web.json_response(resp)
JsonRpc(envelope, status) ==
    [status |-> status, kind |-> "json", text |-> "", location |-> None, body |-> envelope,
     www_authenticate |-> ""]

\* the result envelope with the id left out (null)
RpcResult_NullId(request_id, result) == [jsonrpc |-> "2.0", id |-> JNull, result |-> result]

RpcResult(request_id, result) == [jsonrpc |-> "2.0", id |-> request_id, result |-> result]

\* the error envelope with the id left out (null)
RpcError_NullId(request_id, code, message) ==
    [jsonrpc |-> "2.0", id |-> JNull, error |-> [code |-> code, message |-> message]]

RpcError(request_id, code, message) ==
    [jsonrpc |-> "2.0", id |-> request_id, error |-> [code |-> code, message |-> message]]

\* the response of the except clause of handle_mcp_request
InternalError == JsonRpc(RpcError(JNull, -32603, JStr("Internal error: {e}")), 500)

\* web.Response(status=401, text=..., headers={'WWW-Authenticate': ...})
Unauthorized ==
    [status |-> 401, kind |-> "text", text |-> "Missing or invalid access token",
     location |-> None, body |-> NoBody, www_authenticate |-> "Bearer realm=\"Domoticz MCP\""]

InitializeResult ==
    [protocolVersion |-> "2025-06-18", capabilities |-> [tools |-> <<>>],
     serverInfo |-> [name |-> "domoticz-mcp-server", version |-> "2.0.0"]]

\* json.dumps(result, indent=2)
Dumps(result) == [dumps |-> result]

\* the branch for tools/call turning an {"error": ...} of the executor into a
\* JSON-RPC error object
ToolsCall_ErrorObject(params, request_id, auth_header, reply) ==
    IF ~IsDict(params) THEN [response |-> InternalError, calls |-> <<>>]
    ELSE IF ~Truthy(auth_header) \/ ~StartsWith(auth_header, BearerPrefix)
    THEN [response |-> Unauthorized, calls |-> <<>>]
    ELSE LET access_token == SubSeq(auth_header, 8, Len(auth_header))
             run == execute_domoticz_tool(PyGet(params, "name", JNull),
                                          PyGet(params, "arguments", EmptyDict),
                                          access_token, reply)
         IN  [response |->
                 IF IsDict(run.result) /\ "error" \in DOMAIN run.result.o
                 THEN JsonRpc(RpcError(request_id, -32000, run.result.o.error), 200)
                 ELSE JsonRpc(RpcResult(request_id,
                                        [content |-> << [type |-> "text",
                                                         text |-> Dumps(run.result)] >>]), 200),
              calls |-> run.calls]

\* the branch of handle_mcp_request for tools/call
ToolsCall(params, request_id, auth_header, reply) ==
    IF ~IsDict(params) THEN [response |-> InternalError, calls |-> <<>>]
    ELSE IF ~Truthy(auth_header) \/ ~StartsWith(auth_header, BearerPrefix)
    THEN [response |-> Unauthorized, calls |-> <<>>]
    ELSE LET access_token == SubSeq(auth_header, 8, Len(auth_header))
             run == execute_domoticz_tool(PyGet(params, "name", JNull),
                                          PyGet(params, "arguments", EmptyDict),
                                          access_token, reply)
         IN  [response |->
                 JsonRpc(RpcResult(request_id,
                                   [content |-> << [type |-> "text",
                                                    text |-> Dumps(run.result)] >>]), 200),
              calls |-> run.calls]

\* handle_mcp_request on the body data (what request.json() gives; t "invalid"
\* when it raises) and the Authorization header auth_header (None: absent):
\* the response and the downstream calls made
handle_mcp_request(data, auth_header, reply) ==
    IF data.t = "invalid" \/ ~IsDict(data) THEN [response |-> InternalError, calls |-> <<>>]
    ELSE LET method     == PyGet(data, "method", JNull)
             params     == PyGet(data, "params", EmptyDict)
             request_id == PyGet(data, "id", JNull)
         IN  IF method = JStr("initialize")
             THEN [response |-> JsonRpc(RpcResult(request_id, InitializeResult), 200),
                   calls |-> <<>>]
             ELSE IF method = JStr("tools/list")
             THEN [response |->
                     JsonRpc(RpcResult(request_id, [tools |-> get_available_tools]), 200),
                   calls |-> <<>>]
             ELSE IF method = JStr("tools/call")
             THEN ToolsCall(params, request_id, auth_header, reply)
             ELSE IF method = JStr("logging/setLevel")
             THEN (IF ~IsDict(params) THEN [response |-> InternalError, calls |-> <<>>]
                   ELSE [response |-> JsonRpc(RpcResult(request_id, <<>>), 200),
                         calls |-> <<>>])
             ELSE [response |->
                     JsonRpc(RpcError(request_id, -32601, JFmt("Method not found: ", method)),
                             200),
                   calls |-> <<>>]

\* the handler gets a reply from the Domoticz API exactly when it calls it
\* what a run of handle_mcp_request does to the server
McpRun(data, auth_header, reply) ==
    /\ LET res == handle_mcp_request(data, auth_header, reply)
       IN  /\ (reply = NoReply) <=> (res.calls = <<>>)
           /\ response' = res.response
           /\ calls' = res.calls
    /\ request' = [path |-> "/mcp", query |-> <<>>, answer |-> NoAnswer, reply |-> reply,
                   data |-> data, authorization |-> auth_header]
    /\ nreq' = nreq + 1
    /\ proxy_log' = <<>>
    /\ UNCHANGED <<plugin, threads, now, domoticz_oauth_client, oauth_config, external_bridge_base,
                   redirect_bridge_map, recent_auth_codes, bridge_log>>

Mcp(data, auth_header, reply) ==
    /\ McpRun(data, auth_header, reply)
    /\ UNCHANGED tasks

\* ---- the clock ------------------------------------------------------------

\* time.time() is read by the handlers only; its passing is modelled while
\* the store holds an entry, the one thing whose age the code compares with
\* the clock (with an empty store a handler reads the clock only to stamp
\* what it writes).

\* ---- GET /health, GET /info -------------------------------------------------------

\* web.json_response({"status": "healthy", "service": "domoticz-mcp"})
health_check ==
    [status |-> 200, kind |-> "json", text |-> "healthy", location |-> None,
     body |-> NoBody, www_authenticate |-> ""]

Health ==
    /\ response' = health_check
    /\ request' = [path |-> "/health", query |-> <<>>, answer |-> NoAnswer, reply |-> NoReply]
    /\ calls' = <<>>
    /\ proxy_log' = <<>>
    /\ nreq' = nreq + 1
    /\ UNCHANGED <<plugin, threads, now, domoticz_oauth_client, oauth_config, external_bridge_base,
                   redirect_bridge_map, recent_auth_codes, bridge_log>>

\* server_info dropping the stored config and discovering on every request
server_info_Rediscover(r) ==
    LET disc == discover_oauth_endpoints(NoneDict, r)
    IN  [response |->
           [status |-> 200, kind |-> "json", text |-> "Domoticz MCP Server",
            location |-> None,
            body |-> IF domoticz_oauth_client /\ disc.ok
                     THEN [authorization |-> disc.oauth_config] ELSE NoBody,
            www_authenticate |-> ""],
         oauth_config |-> IF domoticz_oauth_client THEN disc.oauth_config ELSE oauth_config]

\* server_info against the discovery answer r: the response, whose body
\* holds the authorization member of the info dict when it has one, and the
\* value left in oauth_config
server_info(r) ==
    LET needs == domoticz_oauth_client /\ ~TruthyDict(oauth_config)
        disc  == discover_oauth_endpoints(oauth_config, r)
        cfg   == IF needs THEN disc.oauth_config ELSE oauth_config
    IN  [response |->
           [status |-> 200, kind |-> "json", text |-> "Domoticz MCP Server",
            location |-> None,
            body |-> IF domoticz_oauth_client /\ (needs => disc.ok)
                     THEN [authorization |-> cfg] ELSE NoBody,
            www_authenticate |-> ""],
         oauth_config |-> cfg]

Info(r) ==
    /\ response' = server_info(r).response
    /\ oauth_config' = server_info(r).oauth_config
    /\ request' = [path |-> "/info", query |-> <<>>, answer |-> r, reply |-> NoReply]
    /\ calls' = DiscoveryCalls
    /\ proxy_log' = <<>>
    /\ nreq' = nreq + 1
    /\ UNCHANGED <<plugin, threads, now, domoticz_oauth_client, external_bridge_base,
                   redirect_bridge_map, recent_auth_codes, bridge_log>>

\* ---- the handlers as tasks of the event loop -------------------------------------

\* A task is a request being handled: [pc, path, query, data, authorization,
\* response, n], query being the query parameters or the form and n the
\* number of requests answered when the task came to where it stands, itself
\* included. Its pc is
\*   "scheduled"  created, not run yet
\*   "discovery"  inside discover_oauth_endpoints, a call of requests on the
\*                thread of the event loop
\*   "reading"    at await request.post()
\*   "executor"   at await loop.run_in_executor(None, do_req)
\*   "json"       at await request.json()
\*   "tool"       inside make_authenticated_request, a call of requests on
\*                the thread of the event loop
\*   "done"       returned

\* HoldsLoop with the POST of /token made by a direct call
HoldsLoop_DirectPost(task) == task.pc \in {"discovery", "tool", "executor"}

\* the task is inside a call that does not return to the event loop until the
\* downstream has answered
HoldsLoop(task) == task.pc \in {"discovery", "tool"}

\* the thread of the event loop is inside a downstream call of some task
Stalled == \E i \in DOMAIN tasks : HoldsLoop(tasks[i])

\* the task stands at an await, or was not started
Suspended(task) == task.pc \in {"scheduled", "reading", "executor", "json"}

\* the event loop can run task i
CanRun(i) == Suspended(tasks[i]) /\ ~Stalled

\* the handler begins with a discovery
NeedsDiscovery == domoticz_oauth_client /\ ~TruthyDict(oauth_config)

\* proxy_token, with r the answer to its discovery if it makes one, gets as
\* far as the form and the POST
PostsToken(r) ==
    /\ domoticz_oauth_client
    /\ ~TruthyDict(oauth_config) => discover_oauth_endpoints(oauth_config, r).ok
    /\ Truthy(Get(IF TruthyDict(oauth_config) THEN oauth_config
                  ELSE discover_oauth_endpoints(oauth_config, r).oauth_config,
                  K_token_endpoint))

\* handle_mcp_request calls the Domoticz API
CallsApi(data, auth_header) ==
    handle_mcp_request(data, auth_header, [status |-> 200, json_ok |-> FALSE, body |-> JNull]).calls # <<>>

\* where the handler of task stands after the event loop has gone on with
\* it: at its next await, inside its next downstream call on this thread,
\* or at its return; r is the answer to the discovery it was inside
NextPc(task, r) ==
    CASE task.path = "/health" -> "done"
      [] task.path \in {"/info", "/authorize"} ->
            IF task.pc = "scheduled" /\ NeedsDiscovery THEN "discovery" ELSE "done"
      [] task.path = "/token" /\ task.pc = "scheduled" ->
            IF NeedsDiscovery THEN "discovery"
            ELSE IF PostsToken(r) THEN "reading" ELSE "done"
      [] task.path = "/token" /\ task.pc = "discovery" ->
            IF PostsToken(r) THEN "reading" ELSE "done"
      [] task.path = "/token" /\ task.pc = "reading" -> "executor"
      [] task.path = "/token" /\ task.pc = "executor" -> "done"
      [] task.path = "/mcp" /\ task.pc = "scheduled" -> "json"
      [] task.path = "/mcp" /\ task.pc = "json" ->
            IF CallsApi(task.data, task.authorization) THEN "tool" ELSE "done"
      [] task.path = "/mcp" /\ task.pc = "tool" -> "done"

\* task i moves on to pc, the server as it was
MoveTo(i, pc) ==
    /\ tasks' = [tasks EXCEPT ![i].pc = pc, ![i].n = nreq]
    /\ UNCHANGED <<plugin, threads, now, domoticz_oauth_client, oauth_config, external_bridge_base,
                   redirect_bridge_map, recent_auth_codes, request, response, nreq,
                   bridge_log, calls, proxy_log>>

\* task i returns the response of the step
Finish(i) ==
    tasks' = [tasks EXCEPT ![i].pc = "done", ![i].response = response', ![i].n = nreq']

\* the server takes a request in: a task is created for its handler
Accept(task) ==
    /\ Len(tasks) < MaxLoopTasks
    /\ tasks' = Append(tasks, task)
    /\ UNCHANGED <<plugin, threads, now, domoticz_oauth_client, oauth_config, external_bridge_base,
                   redirect_bridge_map, recent_auth_codes, request, response, nreq,
                   bridge_log, calls, proxy_log>>

\* the discovery of proxy_token succeeded and the handler goes on to the
\* form: the config is stored
TokenDiscovered(i, r) ==
    /\ oauth_config' = discover_oauth_endpoints(oauth_config, r).oauth_config
    /\ calls' = DiscoveryCalls
    /\ tasks' = [tasks EXCEPT ![i].pc = "reading", ![i].n = nreq]
    /\ UNCHANGED <<plugin, threads, now, domoticz_oauth_client, external_bridge_base,
                   redirect_bridge_map, recent_auth_codes, request, response, nreq,
                   bridge_log, proxy_log>>

\* the handler of task i runs to its return: what it does to the server,
\* with the answers r to its discovery, t to its POST and reply to its call
\* of the API
Complete(i, r, t, reply) ==
    /\ CASE tasks[i].path = "/health" -> Health
         [] tasks[i].path = "/info" -> Info(r)
         [] tasks[i].path = "/authorize" -> AuthorizeRun(tasks[i].query, r)
         [] tasks[i].path = "/token" -> TokenRun(tasks[i].query, r, t)
         [] tasks[i].path = "/mcp" -> McpRun(tasks[i].data, tasks[i].authorization, reply)
    /\ Finish(i)

\* the thread of the event loop goes on with task i: the loop picks it at
\* the await it stands at, or the downstream call the thread is inside for
\* it returns; the handler runs to its next await, to its next downstream
\* call on this thread, or to its return. r, t and reply are the answers
\* that arrived: to the discovery the task was inside, to the POST it
\* awaited, to the call of the API it was inside.
Step(i, r, t, reply) ==
    /\ CanRun(i) \/ HoldsLoop(tasks[i])
    /\ (r # NoAnswer) => tasks[i].pc = "discovery"
    /\ (t # NoReply) => tasks[i].pc = "executor"
    /\ (reply # NoReply) => tasks[i].pc = "tool"
    /\ IF NextPc(tasks[i], r) = "done" THEN Complete(i, r, t, reply)
       ELSE IF tasks[i].pc = "discovery" THEN TokenDiscovered(i, r)
       ELSE MoveTo(i, NextPc(tasks[i], r))

TickSecond ==
    /\ redirect_bridge_map # <<>>
    /\ now % redirect_bridge_ttl < MaxSeconds
    /\ now' = now + 1
    /\ UNCHANGED <<plugin, threads, domoticz_oauth_client, oauth_config, external_bridge_base,
                   redirect_bridge_map, recent_auth_codes, request, response, nreq,
                   bridge_log, calls, proxy_log, tasks>>

TickPeriod ==
    /\ redirect_bridge_map # <<>>
    /\ now \div redirect_bridge_ttl < MaxPeriods
    /\ now' = now + redirect_bridge_ttl
    /\ UNCHANGED <<plugin, threads, domoticz_oauth_client, oauth_config, external_bridge_base,
                   redirect_bridge_map, recent_auth_codes, request, response, nreq,
                   bridge_log, calls, proxy_log, tasks>>

\* ---- requests and downstream answers the model draws from ------------------

\* a query parameter k=v, nothing when v is None
Param(k, v) == IF v = None THEN <<>> ELSE << <<k, v>> >>

AuthorizeQuery(redirect_uri, state, client_secret) ==
    Param(K_redirect_uri, redirect_uri) \o Param(K_state, state)
        \o Param(K_client_secret, client_secret)

CallbackQuery(code, error, state) ==
    Param(K_code, code) \o Param(K_error, error) \o Param(K_state, state)

\* a query string that repeats keys
RepeatedKeysQuery ==
    << <<K_client_secret, V_secret>>, <<K_state, S_abc>>, <<K_redirect_uri, R_loop>>,
       <<K_client_secret, V_secret2>>, <<K_state, S_sp>> >>

\* /authorize requests: every kind of redirect_uri (loopback by IP and by
\* name, with and without a query string, https, another host, a host that
\* merely begins with 'localhost', none), with a state, an empty state and
\* no state, with and without client_secret
AuthorizeQueries ==
    { AuthorizeQuery(R_loop, S_abc, None),
      AuthorizeQuery(R_loop2, S_abc, V_secret),
      AuthorizeQuery(R_localq, S_sp, None),
      AuthorizeQuery(R_loop, None, None),
      AuthorizeQuery(R_loop2, <<>>, V_secret),
      AuthorizeQuery(R_https, S_abc, V_secret),
      AuthorizeQuery(R_https, None, None),
      AuthorizeQuery(R_http, S_abc, None),
      AuthorizeQuery(R_prefix, S_abc, None),
      AuthorizeQuery(R_httpsloop, S_sp, V_secret),
      AuthorizeQuery(None, S_abc, V_secret),
      AuthorizeQuery(None, None, None),
      RepeatedKeysQuery }

\* /redirect_bridge requests: code, error, both, neither, an empty code,
\* with a state, an empty state and no state, and a code for every state
\* the store holds
CallbackQueries ==
    { CallbackQuery(C_xyz, None, S_abc),
      CallbackQuery(C_res, None, S_sp),
      CallbackQuery(None, E_denied, S_abc),
      CallbackQuery(None, None, S_abc),
      CallbackQuery(C_xyz, E_denied, S_abc),
      CallbackQuery(<<>>, E_denied, S_sp),
      CallbackQuery(C_xyz, None, None),
      CallbackQuery(C_xyz, None, <<>>) }
        \cup { CallbackQuery(C_xyz, None, s) : s \in DOMAIN redirect_bridge_map }

DocFull == << <<K_issuer, BaseUrl>>, <<K_authorization_endpoint, AuthEp>>,
              <<K_token_endpoint, TokenEp>> >>
DocLocal == << <<K_authorization_endpoint, LocalAuthEp>>,
               <<K_token_endpoint, LocalTokenEp>> >>
DocNoAuth == << <<K_token_endpoint, TokenEp>> >>

\* downstream answers to GET /.well-known/openid-configuration
DiscoveryAnswers ==
    { [status |-> 200, json_ok |-> TRUE, doc |-> DocFull],
      [status |-> 200, json_ok |-> TRUE, doc |-> DocNoAuth],
      [status |-> 404, json_ok |-> TRUE, doc |-> <<>>] }

\* ---- the plugin: base_plugin.py ---------------------------------------------

\* mcp_server.py 11-16: both aiohttp imports succeeded
AIOHTTP_AVAILABLE == TRUE

max_restart_attempts == 3

\* Parameters["Mode2"], the health-check interval in seconds
HealthIntervals == {10, 30}

\* for _ in range(5) of _start_mcp_server
start_checks == 5

\* BasePlugin.__init__; started, stopped, pc, tries, command, failed and auto_starts
\* are not fields of the object: started says onStart has run, stopped that onStop
\* has, pc and tries are the place
\* of the plugin thread ("idle" between callbacks), command is the last command on
\* unit 1 that was obeyed, failed says a health check of the running server failed
\* and no start succeeded since, auto_starts counts the server threads onHeartbeat
\* started since then
BasePlugin ==
    [started |-> FALSE, stopped |-> FALSE, pc |-> "idle", tries |-> 0, command |-> "",
     failed |-> FALSE, auto_starts |-> 0,
     run_again |-> 6, health_check_interval |-> 30, auto_start_server |-> TRUE,
     server_running |-> FALSE, restart_attempts |-> 0, server_thread |-> 0]

\* threading.Thread.is_alive() of the server thread
is_alive(k) == threads[k].pc # "exited"

Serving == { k \in 1..Len(threads) : threads[k].pc = "serving" }

\* _check_server_health: the answers GET /health can get now; only a thread that
\* serves answers "healthy", and a stalled or dead one does not answer in time
_check_server_health == {FALSE} \cup { TRUE : k \in Serving }

\* _start_mcp_server up to server_thread.start(): the plugin object after it
_start_mcp_server(p) ==
    IF ~AIOHTTP_AVAILABLE \/ p.server_running THEN [p EXCEPT !.pc = "idle"]
    ELSE [p EXCEPT !.server_running = TRUE, !.server_thread = Len(threads) + 1,
                   !.pc = "starting", !.tries = start_checks]

\* the server threads after _start_mcp_server
Started(p) ==
    IF ~AIOHTTP_AVAILABLE \/ p.server_running THEN threads
    ELSE Append(threads, [pc |-> "starting"])

\* onHeartbeat calls _start_mcp_server
Automatic(p) ==
    IF p.failed /\ Len(Started(p)) > Len(threads)
    THEN [_start_mcp_server(p) EXCEPT !.auto_starts = @ + 1]
    ELSE _start_mcp_server(p)

MaxThreads == 5

\* the model starts no more than MaxThreads server threads
MayStart(p) == p.server_running \/ Len(threads) < MaxThreads

\* _start_mcp_server, one round of its loop: a second of sleep, a health check
StartWait(h) ==
    /\ plugin.pc = "starting"
    /\ h \in _check_server_health
    /\ IF h
       THEN /\ plugin' = [plugin EXCEPT !.restart_attempts = 0, !.pc = "idle", !.tries = 0,
                                        !.failed = FALSE, !.auto_starts = 0]
            /\ threads' = threads
       ELSE /\ plugin' = IF plugin.tries > 1
                         THEN [plugin EXCEPT !.tries = @ - 1]
                         ELSE [plugin EXCEPT !.server_running = FALSE,
                                             !.pc = "idle", !.tries = 0]
            /\ threads' = threads

\* _stop_mcp_server up to the join: the plugin object after it
_stop_mcp_server(p) ==
    IF ~p.server_running THEN p
    ELSE IF p.server_thread # 0 /\ is_alive(p.server_thread)
    THEN [p EXCEPT !.server_running = FALSE, !.pc = "joining"]
    ELSE [p EXCEPT !.server_running = FALSE, !.server_thread = 0]

\* server_thread.join(timeout=5) returns, the thread ended or not
JoinReturn ==
    /\ plugin.pc = "joining"
    /\ plugin' = [plugin EXCEPT !.server_thread = 0, !.pc = "idle"]
    /\ threads' = threads

\* onStart; r is the downstream answer to the discovery of the client it creates
onStart(mode1, mode2, r) ==
    /\ ~plugin.started
    /\ ~plugin.stopped
    /\ domoticz_oauth_client' = TRUE
    /\ oauth_config' = discover_oauth_endpoints(NoneDict, r).oauth_config
    /\ calls' = <<DiscoveryCall>>
    /\ \A p \in { [plugin EXCEPT !.started = TRUE, !.health_check_interval = mode2,
                                 !.auto_start_server = mode1] } :
          IF AIOHTTP_AVAILABLE /\ p.auto_start_server
          THEN plugin' = _start_mcp_server(p) /\ threads' = Started(p)
          ELSE plugin' = p /\ threads' = threads

onStop ==
    /\ plugin.started
    /\ plugin.pc = "idle"
    /\ plugin' = [_stop_mcp_server(plugin) EXCEPT !.started = FALSE, !.stopped = TRUE]
    /\ threads' = threads

\* onHeartbeat; h is the answer of the health check when it makes one
onHeartbeat(h) ==
    /\ plugin.started
    /\ plugin.pc = "idle"
    /\ h \in _check_server_health
    /\ \A p \in { [plugin EXCEPT !.run_again = @ - 1] } :
          IF p.run_again > 0 THEN plugin' = p /\ threads' = threads /\ ~h
          ELSE \A q \in { [p EXCEPT !.run_again = p.health_check_interval \div 10] } :
             IF q.server_running
             THEN /\ threads' = threads
                  /\ plugin' =
                        IF h THEN q
                        ELSE IF q.restart_attempts < max_restart_attempts /\ AIOHTTP_AVAILABLE
                        THEN [_stop_mcp_server([q EXCEPT !.server_running = FALSE,
                                                         !.restart_attempts = @ + 1])
                                 EXCEPT !.pc = "sleep", !.failed = TRUE]
                        ELSE [q EXCEPT !.server_running = FALSE, !.failed = TRUE]
             ELSE /\ ~h
                  /\ IF /\ q.auto_start_server
                        /\ q.restart_attempts < max_restart_attempts
                        /\ AIOHTTP_AVAILABLE
                     THEN /\ MayStart(q)
                          /\ plugin' = Automatic(q)
                          /\ threads' = Started(q)
                     ELSE plugin' = q /\ threads' = threads

\* onHeartbeat after time.sleep(2): the restart
Restart ==
    /\ plugin.pc = "sleep"
    /\ MayStart(plugin)
    /\ plugin' = Automatic(plugin)
    /\ threads' = Started(plugin)

onCommand(Unit, Cmd) ==
    /\ plugin.started
    /\ plugin.pc = "idle"
    /\ IF Unit = 1 /\ Cmd = "On" /\ ~plugin.server_running
       THEN /\ MayStart(plugin)
            /\ plugin' = IF AIOHTTP_AVAILABLE
                         THEN [_start_mcp_server(plugin) EXCEPT !.command = "On"]
                         ELSE plugin
            /\ threads' = Started(plugin)
       ELSE IF Unit = 1 /\ Cmd = "Off" /\ plugin.server_running
       THEN /\ plugin' = [_stop_mcp_server(plugin) EXCEPT !.command = "Off"]
            /\ threads' = threads
       ELSE UNCHANGED <<plugin, threads>>

\* _run_server_async up to the keep-alive loop: start_server binds the port, or
\* raises and the handler of line 141 clears server_running; the port cannot be
\* bound while another thread listens on it
ServerStart(k, bound) ==
    /\ threads[k].pc = "starting"
    /\ bound => Serving = {}
    /\ IF bound
       THEN /\ threads' = [threads EXCEPT ![k].pc = "serving"]
            /\ plugin' = plugin
       ELSE /\ threads' = [threads EXCEPT ![k].pc = "exited"]
            /\ plugin' = [plugin EXCEPT !.server_running = FALSE]

\* _async_server_main: the keep-alive loop reads server_running False and ends
ServerExit(k) ==
    /\ threads[k].pc = "serving"
    /\ ~plugin.server_running
    /\ threads' = [threads EXCEPT ![k].pc = "exited"]
    /\ plugin' = plugin

\* ---- specification ---------------------------------------------------------

Init ==
    /\ now = 0
    /\ domoticz_oauth_client \in BOOLEAN
    /\ oauth_config = NoneDict
    /\ external_bridge_base \in {None, BaseHttps, BaseHttpsSlash}
    /\ redirect_bridge_map = <<>>
    /\ recent_auth_codes = <<>>
    /\ request = NoRequest
    /\ response = NoResponse
    /\ nreq = 0
    /\ bridge_log = <<>>
    /\ calls = <<>>
    /\ proxy_log = <<>>
    /\ tasks = <<>>
    /\ plugin = BasePlugin
    /\ threads = <<>>

\* the discovery answers a request can meet: one only if it runs a discovery
AnswersNow ==
    IF domoticz_oauth_client /\ ~TruthyDict(oauth_config) THEN DiscoveryAnswers ELSE {NoAnswer}

Next ==
    \/ /\ nreq < MaxRequests
       /\ \E q \in AuthorizeQueries, r \in AnswersNow : Authorize(q, r)
    \/ /\ nreq < MaxRequests
       /\ \E q \in CallbackQueries : RedirectBridge(q)
    \/ TickSecond
    \/ TickPeriod

Spec == Init /\ [][Next]_vars

\* ---- complete authorization flows through the bridge -----------------------

\* /authorize requests that engage the bridge
FlowAuthorizeQueries ==
    { AuthorizeQuery(R_loop, S_abc, None),
      AuthorizeQuery(R_loop2, S_abc, V_secret),
      AuthorizeQuery(R_localq, S_sp, None),
      AuthorizeQuery(R_loop, None, None) }

FlowCallbackQueries ==
    { CallbackQuery(C_xyz, None, S_abc),
      CallbackQuery(C_res, None, S_abc),
      CallbackQuery(None, E_denied, S_abc),
      CallbackQuery(C_xyz, None, None) }
        \cup { CallbackQuery(C_xyz, None, s) : s \in DOMAIN redirect_bridge_map }

InitFlow ==
    /\ Init
    /\ domoticz_oauth_client
    /\ external_bridge_base = BaseHttps

NextFlow ==
    \/ /\ nreq < MaxFlowRequests
       /\ \E q \in FlowAuthorizeQueries, r \in AnswersNow : Authorize(q, r)
    \/ /\ nreq < MaxFlowRequests
       /\ \E q \in FlowCallbackQueries : RedirectBridge(q)
    \/ TickSecond
    \/ TickPeriod

SpecFlow == InitFlow /\ [][NextFlow]_vars

\* ---- the two OAuth proxies ----------------------------------------------------

DocNoToken == << <<K_authorization_endpoint, AuthEp>> >>

\* downstream answers to the discovery call: a full document, one without
\* each endpoint, an empty one, a non-200 status, a body that does not
\* parse, and no answer at all (status 0: session.get raises)
ProxyDiscoveryAnswers ==
    { [status |-> 200, json_ok |-> TRUE, doc |-> DocFull],
      [status |-> 200, json_ok |-> TRUE, doc |-> DocNoAuth],
      [status |-> 200, json_ok |-> TRUE, doc |-> DocNoToken],
      [status |-> 200, json_ok |-> TRUE, doc |-> <<>>],
      [status |-> 404, json_ok |-> TRUE, doc |-> <<>>],
      [status |-> 200, json_ok |-> FALSE, doc |-> <<>>],
      [status |-> 0, json_ok |-> FALSE, doc |-> <<>>] }

ProxyAnswersNow ==
    IF domoticz_oauth_client /\ ~TruthyDict(oauth_config) THEN ProxyDiscoveryAnswers
    ELSE {NoAnswer}

ProxyAuthorizeQueries ==
    { AuthorizeQuery(R_loop, S_abc, V_secret),
      AuthorizeQuery(R_https, S_abc, None),
      AuthorizeQuery(None, None, None) }

K_Password == <<"P","a","s","s","w","o","r","d">>  \* 'Password'
K_client_assertion == <<"c","l","i","e","n","t","_","a","s","s","e","r","t","i","o","n">>  \* 'client_assertion'
V_pw == <<"p","w">>  \* 'pw'
V_A1 == <<"A","1">>  \* 'A1'

\* forms: an authorization-code exchange with a client secret, one with a
\* password and a client assertion, and an empty one
TokenForms ==
    { << <<K_grant_type, V_authorization_code>>, <<K_code, C_xyz>>,
         <<K_client_secret, V_secret>> >>,
      << <<K_grant_type, V_authorization_code>>, <<K_Password, V_pw>>,
         <<K_client_assertion, V_A1>> >>,
      <<>> }

K_access_token == <<"a","c","c","e","s","s","_","t","o","k","e","n">>  \* 'access_token'
K_Client_Secret == <<"C","l","i","e","n","t","_","S","e","c","r","e","t">>  \* 'Client_Secret'
K_auth_code == <<"a","u","t","h","_","c","o","d","e">>  \* 'auth_code'
V_T == <<"T">>  \* 'T'
V_invalid_grant == <<"i","n","v","a","l","i","d","_","g","r","a","n","t">>  \* 'invalid_grant'
TokenSecretsJson == <<"{","\"","a","c","c","e","s","s","_","t","o","k","e","n","\"",":","\"","T","\"",",","\"","C","l","i","e","n","t","_","S","e","c","r","e","t","\"",":","\"","s","3","\"",",","\"","a","u","t","h","_","c","o","d","e","\"",":","\"","X","Y","Z","\"","}">>  \* '{"access_token":"T","Client_Secret":"s3","auth_code":"XYZ"}'

\* a body that is no JSON, one character longer than resp.text[:200] keeps
TokenLongText == [i \in 1..(RawLimit + 1) |-> IF i > RawLimit THEN "y" ELSE "x"]

TokenReplies_Success ==
    [status |-> 200, json_ok |-> TRUE, body |-> TokenJson, doc |-> << <<K_access_token, V_T>> >>]

\* replies of the token endpoint, doc being the dict the body parses to:
\* success, success with more fields, an OAuth error, a short and a long
\* body that is no JSON, and none (status 0: the POST raises)
TokenReplies ==
    { [status |-> 200, json_ok |-> TRUE, body |-> TokenJson,
       doc |-> << <<K_access_token, V_T>> >>],
      [status |-> 200, json_ok |-> TRUE, body |-> TokenSecretsJson,
       doc |-> << <<K_access_token, V_T>>, <<K_Client_Secret, V_secret>>,
                  <<K_auth_code, C_xyz>> >>],
      [status |-> 400, json_ok |-> TRUE, body |-> TokenErrorJson,
       doc |-> << <<K_error, V_invalid_grant>> >>],
      [status |-> 502, json_ok |-> FALSE, body |-> TokenHtml, doc |-> <<>>],
      [status |-> 503, json_ok |-> FALSE, body |-> TokenLongText, doc |-> <<>>],
      [status |-> 0, json_ok |-> FALSE, body |-> <<>>, doc |-> <<>>] }

NextProxy ==
    \/ /\ nreq < MaxProxyRequests
       /\ \E q \in ProxyAuthorizeQueries, r \in ProxyAnswersNow : Authorize(q, r)
    \/ /\ nreq < MaxProxyRequests
       /\ \E f \in TokenForms, r \in ProxyAnswersNow, t \in TokenReplies \cup {NoReply} :
             Token(f, r, t)

SpecProxy == Init /\ [][NextProxy]_vars

\* ---- discovery documents with endpoints of many shapes ---------------------------

BadAuthEp == <<"h","t","t","p",":","/","/","[",":",":","1","/","a">>  \* 'http://[::1/a'
LocalAuthFullEp == <<"h","t","t","p",":","/","/","d","o","m","o","t","i","c","z",".","l","o","c","a","l",":","8","0","8","0","/","a",";","p","?","x","=","1","#","f">>  \* 'http://domoticz.local:8080/a;p?x=1#f'
UpperLocalTokenEp == <<"H","T","T","P",":","/","/","D","o","m","o","t","i","c","z",".","L","o","c","a","l","/","t">>  \* 'HTTP://Domoticz.Local/t'
UserLocalIssuer == <<"h","t","t","p",":","/","/","u","@","d","o","m","o","t","i","c","z",".","l","o","c","a","l",".","l","a","n">>  \* 'http://u@domoticz.local.lan'
LocalxTokenEp == <<"h","t","t","p",":","/","/","d","o","m","o","t","i","c","z",".","l","o","c","a","l","x",".","e","x","/","t">>  \* 'http://domoticz.localx.ex/t'
K_jwks_uri == <<"j","w","k","s","_","u","r","i">>  \* 'jwks_uri'

\* documents: endpoints on the configured host, on domoticz.local, with
\* params, query and fragment, an upper-case scheme and host, userinfo, a
\* host that only starts like domoticz.local, a key _normalize does not
\* look at, and an authorization_endpoint that does not parse
NormDocs ==
    { DocFull, DocLocal,
      << <<K_authorization_endpoint, LocalAuthFullEp>>, <<K_token_endpoint, UpperLocalTokenEp>>,
         <<K_issuer, UserLocalIssuer>> >>,
      << <<K_authorization_endpoint, AuthEp>>, <<K_token_endpoint, LocalxTokenEp>>,
         <<K_jwks_uri, LocalAuthEp>> >>,
      << <<K_issuer, LocalAuthEp>>, <<K_token_endpoint, TokenEp>> >>,
      << <<K_authorization_endpoint, BadAuthEp>>, <<K_token_endpoint, LocalTokenEp>> >> }

NormAnswersNow ==
    IF domoticz_oauth_client /\ ~TruthyDict(oauth_config)
    THEN { [status |-> 200, json_ok |-> TRUE, doc |-> d] : d \in NormDocs }
             \cup { [status |-> 404, json_ok |-> TRUE, doc |-> <<>>] }
    ELSE {NoAnswer}

NextNorm ==
    \/ /\ nreq < MaxNormRequests
       /\ \E q \in ProxyAuthorizeQueries, r \in NormAnswersNow : Authorize(q, r)
    \/ /\ nreq < MaxNormRequests
       /\ \E r \in NormAnswersNow, t \in {TokenReplies_Success, NoReply} :
             Token(<<>>, r, t)

SpecNorm == InitFlow /\ [][NextNorm]_vars

\* ---- concurrent callbacks ------------------------------------------------------

RaceAuthorizeQueries ==
    { AuthorizeQuery(R_loop, S_abc, None),
      AuthorizeQuery(R_localq, S_sp, None) }

\* callbacks for one state with different codes, and one for another state
RaceCallbackQueries ==
    { CallbackQuery(C_xyz, None, S_abc),
      CallbackQuery(C_res, None, S_abc),
      CallbackQuery(None, E_denied, S_sp) }

\* handlers run on one event loop: /authorize awaits nothing and is one step;
\* callbacks arrive in any number before any of them is run, and are run in
\* any order
NextRace ==
    \/ /\ nreq < MaxRaceRequests
       /\ \E q \in RaceAuthorizeQueries, r \in AnswersNow : Authorize(q, r)
    \/ \E q \in RaceCallbackQueries : Arrive(q)
    \/ \E i \in DOMAIN tasks : Resume(i)

SpecRace == InitFlow /\ [][NextRace]_vars

\* ---- the routes that discover ------------------------------------------------------

CacheForm == << <<K_grant_type, V_authorization_code>>, <<K_code, C_xyz>> >>

NextCache ==
    \/ /\ nreq < MaxCacheRequests
       /\ \E r \in ProxyAnswersNow : Authorize(AuthorizeQuery(R_loop, S_abc, None), r)
    \/ /\ nreq < MaxCacheRequests
       /\ \E r \in ProxyAnswersNow, t \in {TokenReplies_Success, NoReply} :
             Token(CacheForm, r, t)
    \/ /\ nreq < MaxCacheRequests
       /\ \E r \in ProxyAnswersNow : Info(r) /\ UNCHANGED tasks
    \/ /\ nreq < MaxCacheRequests
       /\ Health /\ UNCHANGED tasks

SpecCache == Init /\ [][NextCache]_vars

\* ---- callbacks on a full recent-codes buffer -----------------------------------

\* the record of a callback /redirect_bridge?code=XYZ&state=abc at time 0 for
\* an entry stored by /authorize?redirect_uri=http://127.0.0.1:9/cb&state=abc
RingRecord ==
    [ts |-> 0, state |-> S_abc, code |-> C_xyz, full_code_logged |-> TRUE,
     error |-> None, forward_target |-> R_loop]

\* what the handlers have logged after n such flows
RingLog(n) ==
    [i \in 1..(2 * n) |->
        [op |-> IF i % 2 = 1 THEN "put" ELSE "take", state |-> S_abc,
         redirect |-> R_loop, ts |-> 0, n |-> i]]

\* the server after n flows at time 0, each an /authorize (the first one
\* discovering the full document) followed by its callback
RingStart(n) ==
    /\ now = 0
    /\ domoticz_oauth_client = TRUE
    /\ oauth_config = _normalize(DocFull)
    /\ external_bridge_base = BaseHttps
    /\ redirect_bridge_map = <<>>
    /\ recent_auth_codes = [i \in 1..n |-> RingRecord]
    /\ request = [path |-> "/redirect_bridge", query |-> CallbackQuery(C_xyz, None, S_abc),
                  answer |-> NoAnswer, reply |-> NoReply]
    /\ response = HTTPFound(ForwardUrl(R_loop, C_xyz, None, S_abc))
    /\ nreq = 2 * n
    /\ bridge_log = RingLog(n)
    /\ calls = <<>>
    /\ proxy_log = <<>>
    /\ tasks = <<>>
    /\ plugin = BasePlugin
    /\ threads = <<>>

\* the buffer holds one record less than its capacity, or is just full
InitRing == \E n \in {recent_codes_limit - 1, recent_codes_limit} : RingStart(n)

RingAuthorizeQueries ==
    { AuthorizeQuery(R_loop, S_abc, None),
      AuthorizeQuery(R_localq, S_sp, None) }

RingCallbackQueries ==
    { CallbackQuery(C_xyz, None, None) }
        \cup { CallbackQuery(C_res, None, s) : s \in DOMAIN redirect_bridge_map }
        \cup { CallbackQuery(None, E_denied, s) : s \in DOMAIN redirect_bridge_map }

NextRing ==
    \/ /\ nreq < 2 * recent_codes_limit + MaxRingRequests
       /\ \E q \in RingAuthorizeQueries : Authorize(q, NoAnswer)
    \/ /\ nreq < 2 * recent_codes_limit + MaxRingRequests
       /\ \E q \in RingCallbackQueries : RedirectBridge(q)

SpecRing == InitRing /\ [][NextRing]_vars

\* ---- the MCP endpoint ----------------------------------------------------------

\* marks a key the request leaves out
Absent == [t |-> "absent"]

\* the dict with the keys of fields whose value is not Absent
Present(fields) == JObj([k \in {x \in DOMAIN fields : fields[x] # Absent} |-> fields[k]])

\* the body {"jsonrpc": "2.0", "method": method, "params": params, "id": id}
RpcBody(method, params, id) ==
    Present([jsonrpc |-> JStr("2.0"), method |-> method, params |-> params, id |-> id])

\* the params {"name": name, "arguments": arguments} of a tools/call
ToolParams(name, arguments) == Present([name |-> name, arguments |-> arguments])

\* request ids: a number, a string, null and none
RequestIds == {JNum(7), JStr("a"), JNull, Absent}

\* methods without an Authorization requirement, and no method
OpenMethods ==
    {JStr("initialize"), JStr("tools/list"), JStr("logging/setLevel"), JStr("foo"), Absent}

\* params of a tools/call: none, null, a list, and dicts naming each tool, an
\* unknown tool and no tool, with arguments present, absent, null, and with
\* and without the argument the tool reads
ToolCallParams ==
    { Absent, JNull, JArr,
      ToolParams(JStr("domoticz_get_version"), EmptyDict),
      ToolParams(JStr("domoticz_list_devices"),
                 JObj([filter |-> JStr("light"), used |-> JBool(FALSE)])),
      ToolParams(JStr("domoticz_list_devices"), Absent),
      ToolParams(JStr("domoticz_list_devices"), JNull),
      ToolParams(JStr("domoticz_device_status"), JObj([idx |-> JNum(5)])),
      ToolParams(JStr("domoticz_device_status"), EmptyDict),
      ToolParams(JStr("domoticz_device_status"), JObj([idx |-> JNum(0)])),
      ToolParams(JStr("domoticz_device_status"), JObj([idx |-> JNum(1)])),
      ToolParams(JStr("domoticz_device_status"), Absent),
      ToolParams(JStr("domoticz_device_status"), JNull),
      ToolParams(JStr("domoticz_list_scenes"), JNull),
      ToolParams(JStr("domoticz_get_log"), JObj([log_type |-> JStr("error")])),
      ToolParams(JStr("domoticz_get_log"), Absent),
      ToolParams(JStr("domoticz_nope"), EmptyDict),
      ToolParams(Absent, EmptyDict) }

\* bodies: one that is no JSON, one that is no dict, and JSON-RPC requests
McpBodies ==
    { [t |-> "invalid"], JArr }
        \cup { RpcBody(m, p, i) : m \in OpenMethods, p \in {Absent, JNull}, i \in RequestIds }
        \cup { RpcBody(JStr("tools/call"), p, i) : p \in ToolCallParams, i \in {JNum(7), Absent} }

BearerT1 == <<"B","e","a","r","e","r"," ","T","1">>  \* 'Bearer T1'
LowerBearerT1 == <<"b","e","a","r","e","r"," ","T","1">>  \* 'bearer T1'
BasicX == <<"B","a","s","i","c"," ","x">>  \* 'Basic x'

\* Authorization headers: none, empty, another scheme, a lower-case scheme,
\* a bearer token, and 'Bearer ' with nothing after it
AuthHeaders == {None, <<>>, BasicX, LowerBearerT1, BearerT1, BearerPrefix}

\* replies of the Domoticz API: a JSON document, a body that is no JSON,
\* 401, another status, and none (status 0: session.get raises)
ApiReplies ==
    { [status |-> 200, json_ok |-> TRUE, body |-> JObj([status |-> JStr("OK")])],
      [status |-> 200, json_ok |-> FALSE, body |-> JNull],
      [status |-> 401, json_ok |-> FALSE, body |-> JNull],
      [status |-> 500, json_ok |-> FALSE, body |-> JNull],
      [status |-> 0, json_ok |-> FALSE, body |-> JNull] }

InitMcp ==
    /\ Init
    /\ external_bridge_base = BaseHttps

NextMcp ==
    /\ nreq < MaxMcpRequests
    /\ \E data \in McpBodies, auth_header \in AuthHeaders, reply \in ApiReplies \cup {NoReply} :
          Mcp(data, auth_header, reply)

SpecMcp == InitMcp /\ [][NextMcp]_vars

\* ---- requests handled concurrently -------------------------------------------------

LoopTask(path, query, data, auth_header) ==
    [pc |-> "scheduled", path |-> path, query |-> query, data |-> data,
     authorization |-> auth_header, response |-> NoResponse, n |-> 0]

\* one request of each route, for /mcp an initialize and a tools/call
LoopTasks ==
    { LoopTask("/health", <<>>, JNull, None),
      LoopTask("/info", <<>>, JNull, None),
      LoopTask("/authorize", AuthorizeQuery(R_loop, S_abc, None), JNull, None),
      LoopTask("/token", << <<K_grant_type, V_authorization_code>>, <<K_code, C_xyz>> >>,
               JNull, None),
      LoopTask("/mcp", <<>>, RpcBody(JStr("initialize"), Absent, JNum(7)), None),
      LoopTask("/mcp", <<>>,
               RpcBody(JStr("tools/call"),
                       ToolParams(JStr("domoticz_get_version"), EmptyDict), JNum(7)),
               BearerT1) }

LoopDiscoveryAnswers ==
    { [status |-> 200, json_ok |-> TRUE, doc |-> DocFull],
      [status |-> 404, json_ok |-> TRUE, doc |-> <<>>] }

LoopTokenReplies == {TokenReplies_Success}

LoopApiReplies ==
    { [status |-> 200, json_ok |-> TRUE, body |-> JObj([status |-> JStr("OK")])],
      [status |-> 401, json_ok |-> FALSE, body |-> JNull] }

NextLoop ==
    \/ \E task \in LoopTasks : Accept(task)
    \/ \E i \in DOMAIN tasks :
          \E r \in LoopDiscoveryAnswers \cup {NoAnswer}, t \in LoopTokenReplies \cup {NoReply},
             reply \in LoopApiReplies \cup {NoReply} :
             Step(i, r, t, reply)

SpecLoop == InitFlow /\ [][NextLoop]_vars

\* ---- what the receiver of a redirect reads from its Location ---------------

\* the character whose escape is %ab
PctDecode(a, b) ==
    LET e == <<"%", a, b>>
    IN  CHOOSE c \in {" ", "#", "%", "&", "+", "/", ":", "=", "?", "@"} : PctEncode(c) = e

IsEscape(s) ==
    /\ Len(s) >= 3
    /\ s[1] = "%"
    /\ \E c \in {" ", "#", "%", "&", "+", "/", ":", "=", "?", "@"} : PctEncode(c) = SubSeq(s, 1, 3)

\* urllib.parse.unquote_plus
RECURSIVE unquote_plus(_)
unquote_plus(s) ==
    IF s = <<>> THEN <<>>
    ELSE IF IsEscape(s) THEN <<PctDecode(s[2], s[3])>> \o unquote_plus(SubSeq(s, 4, Len(s)))
    ELSE IF s[1] = "+" THEN <<" ">> \o unquote_plus(Tail(s))
    ELSE <<s[1]>> \o unquote_plus(Tail(s))

\* s.split(c)
RECURSIVE Split(_, _)
Split(s, c) ==
    LET i == IndexOf(s, {c})
    IN  IF i = 0 THEN <<s>>
        ELSE <<SubSeq(s, 1, i - 1)>> \o Split(SubSeq(s, i + 1, Len(s)), c)

\* urllib.parse.parse_qsl(qs, keep_blank_values=True): the <<name, value>>
\* pairs of a query string
RECURSIVE ParsePairs(_)
ParsePairs(fields) ==
    IF fields = <<>> THEN <<>>
    ELSE LET f == fields[1]
             i == IndexOf(f, {"="})
             name  == IF i = 0 THEN f ELSE SubSeq(f, 1, i - 1)
             value == IF i = 0 THEN <<>> ELSE SubSeq(f, i + 1, Len(f))
         IN  (IF f = <<>> THEN <<>> ELSE << <<unquote_plus(name), unquote_plus(value)>> >>)
             \o ParsePairs(Tail(fields))

parse_qsl(qs) == ParsePairs(Split(qs, "&"))

\* the query parameters of a URL, as its receiver decodes them
QueryOf(url) ==
    LET q == IndexOf(url, {"?"})
    IN  IF url = None \/ q = 0 THEN <<>> ELSE parse_qsl(SubSeq(url, q + 1, Len(url)))

\* the URL without its query string
BaseOf(url) ==
    LET q == IndexOf(url, {"?"})
    IN  IF q = 0 THEN url ELSE SubSeq(url, 1, q - 1)

\* ---- vocabulary of the properties -------------------------------------------

Loopback127 == <<"1","2","7",".","0",".","0",".","1">>  \* '127.0.0.1'
Localhost == <<"l","o","c","a","l","h","o","s","t">>  \* 'localhost'
SchemeHttp == <<"h","t","t","p">>  \* 'http'

\* u is a plain-HTTP URI whose host is 127.0.0.1 or localhost
TargetsLoopbackHttp(u) ==
    /\ Truthy(u)
    /\ urlparse(u).scheme = SchemeHttp
    /\ hostname(urlparse(u).netloc) \in {Loopback127, Localhost}

\* this step handles a request to path
Handles(path) == nreq' = nreq + 1 /\ request'.path = path

\* the parameters of the request this step handles
ReqParam(k) == Get(Dict(request'.query), k)

\* the step's /authorize engaged the bridge: it logged a put
Engages == Handles("/authorize") /\ Len(bridge_log') = Len(bridge_log) + 1

\* the entry that bridge_log[i] says was stored under S is still the one a
\* callback for S will find: nothing was stored or taken under S since, and
\* no later sweep had a cutoff above its timestamp
Pending(S, i) ==
    /\ bridge_log[i].op = "put"
    /\ bridge_log[i].state = S
    /\ \A j \in (i+1)..Len(bridge_log) :
          /\ bridge_log[j].state # S
          /\ bridge_log[j].op = "put" => bridge_log[j].ts - redirect_bridge_ttl <= bridge_log[i].ts

\* the last thing logged about S is that a callback took its entry
Consumed(S) ==
    \E i \in DOMAIN bridge_log :
        /\ bridge_log[i].op = "take"
        /\ bridge_log[i].state = S
        /\ \A j \in (i+1)..Len(bridge_log) : bridge_log[j].state # S

QuestionCodeEq == <<"?">> \o CodeEq

\* ---- C1 ---------------------------------------------------------------------

\* C1 as stated: after /authorize stored R (an http loopback URI without a
\* query string) under state S, the callback /redirect_bridge?code=C&state=S,
\* with no purge of S and no other callback for S in between, is answered
\* 302 with Location exactly R + '?code=' + C + '&state=' + S.
C1_RoundTripVerbatim ==
    [][Handles("/redirect_bridge") =>
        \A i \in DOMAIN bridge_log :
            LET S == ReqParam(K_state)
                C == ReqParam(K_code)
                R == bridge_log[i].redirect
            IN  (/\ Truthy(S) /\ Truthy(C)
                 /\ Pending(S, i)
                 /\ TargetsLoopbackHttp(R) /\ ~Contains(R, "?"))
                => response' = HTTPFound(R \o QuestionCodeEq \o C \o AmpStateEq \o S)]_vars

\* C1 amended: in that round trip the callback is answered 302 with Location
\* R + '?code=' + c + '&state=' + s, where c and s are C and S percent-encoded
\* (every character other than letters, digits and _.-~/ as %XX), so that
\* the loopback client decodes exactly code=C and state=S.
C1_RoundTrip ==
    [][Handles("/redirect_bridge") =>
        \A i \in DOMAIN bridge_log :
            LET S == ReqParam(K_state)
                C == ReqParam(K_code)
                R == bridge_log[i].redirect
            IN  (/\ Truthy(S) /\ Truthy(C)
                 /\ Pending(S, i)
                 /\ TargetsLoopbackHttp(R) /\ ~Contains(R, "?"))
                => /\ response' = HTTPFound(R \o QuestionCodeEq \o quote(C) \o AmpStateEq \o quote(S))
                   /\ BaseOf(response'.location) = R
                   /\ QueryOf(response'.location) = << <<K_code, C>>, <<K_state, S>> >>]_vars

\* the round trip of the example has happened, with a code that needs encoding
C1_Witness ==
    /\ request.path = "/redirect_bridge"
    /\ Get(Dict(request.query), K_code) = C_res
    /\ Get(Dict(request.query), K_state) = S_abc
    /\ response.status = 302
    /\ BaseOf(response.location) = R_loop
    /\ \E i \in DOMAIN bridge_log :
          bridge_log[i] = [op |-> "put", state |-> S_abc, redirect |-> R_loop,
                           ts |-> bridge_log[i].ts, n |-> bridge_log[i].n]

\* ---- C2 ---------------------------------------------------------------------

UnknownOrExpired == TextResponse("Redirect bridge state unknown or expired", 400)

\* between two callbacks that took an entry for the same state, an /authorize
\* stored that state again
TakenOnce(log) ==
    \A i, j \in DOMAIN log :
        (i < j /\ log[i].op = "take" /\ log[j].op = "take" /\ log[i].state = log[j].state)
        => \E k \in (i+1)..(j-1) : log[k].op = "put" /\ log[k].state = log[i].state

\* C2: once a /redirect_bridge callback has taken the entry of state S, a
\* further callback for S, with no /authorize storing S again in between, is
\* answered 400 'unknown or expired' and forwards nothing; every stored entry
\* is consumed by at most one callback.
C2_SingleUse ==
    [][/\ (Handles("/redirect_bridge") /\ Truthy(ReqParam(K_state)) /\ Consumed(ReqParam(K_state)))
          => /\ response' = UnknownOrExpired
             /\ bridge_log' = bridge_log
             /\ recent_auth_codes' = recent_auth_codes
       /\ TakenOnce(bridge_log')]_vars

\* a second callback for a consumed state has been answered 400
C2_Witness ==
    /\ request.path = "/redirect_bridge"
    /\ Consumed(Get(Dict(request.query), K_state))
    /\ response = UnknownOrExpired

\* ---- C3 ---------------------------------------------------------------------

\* the entry stored under S is older than the TTL
Expired(S) ==
    /\ S \in DOMAIN redirect_bridge_map
    /\ redirect_bridge_map[S].ts < now - redirect_bridge_ttl

\* C3: a /redirect_bridge callback whose state has a stored entry older than
\* the TTL is answered 400 and is not redirected to the original loopback
\* URI, whether or not a sweep has run since the entry expired.
C3_ExpiredRejected ==
    [][(Handles("/redirect_bridge") /\ Truthy(ReqParam(K_state)) /\ Expired(ReqParam(K_state)))
        => /\ response'.status = 400
           /\ response'.kind # "redirect"]_vars

\* ---- C4 ---------------------------------------------------------------------

\* the entry logged at i under S was swept by a later /authorize that stored
\* another state, and nothing was stored under S since
Purged(S) ==
    \E i \in DOMAIN bridge_log :
        /\ bridge_log[i].op = "put"
        /\ bridge_log[i].state = S
        /\ \A j \in (i+1)..Len(bridge_log) : bridge_log[j].state # S
        /\ \E j \in (i+1)..Len(bridge_log) :
              /\ bridge_log[j].op = "put"
              /\ bridge_log[j].ts - redirect_bridge_ttl > bridge_log[i].ts

\* C4: the sweep (run by every /authorize that engages the bridge) removes
\* every entry with ts < now - TTL and leaves every other entry as it was
\* (but for the state being stored); afterwards a /redirect_bridge callback
\* for a removed state is answered 400.
C4_Purge ==
    [][/\ Engages =>
            \A k \in DOMAIN redirect_bridge_map \ {bridge_log'[Len(bridge_log')].state} :
                IF redirect_bridge_map[k].ts < now - redirect_bridge_ttl
                THEN k \notin DOMAIN redirect_bridge_map'
                ELSE /\ k \in DOMAIN redirect_bridge_map'
                     /\ redirect_bridge_map'[k] = redirect_bridge_map[k]
       /\ (Handles("/redirect_bridge") /\ Truthy(ReqParam(K_state)) /\ Purged(ReqParam(K_state)))
            => /\ response' = UnknownOrExpired
               /\ ReqParam(K_state) \notin DOMAIN redirect_bridge_map]_vars

\* a callback for a swept state has been answered 400 while a younger entry
\* is still stored
C4_Witness ==
    /\ request.path = "/redirect_bridge"
    /\ Purged(Get(Dict(request.query), K_state))
    /\ response = UnknownOrExpired
    /\ DOMAIN redirect_bridge_map # {}

\* ---- C5 ---------------------------------------------------------------------

\* C5: a /redirect_bridge request with no state parameter, or with a state
\* that has no entry in the bridge store, is answered 400 plain text and
\* leaves the bridge store and the recent-auth-codes buffer unchanged.
C5_UnknownStateNoEffect ==
    [][(/\ Handles("/redirect_bridge")
        /\ (ReqParam(K_state) = None \/ ReqParam(K_state) \notin DOMAIN redirect_bridge_map))
        => /\ response'.status = 400
           /\ response'.kind = "text"
           /\ redirect_bridge_map' = redirect_bridge_map
           /\ recent_auth_codes' = recent_auth_codes]_vars

\* a callback without a known state was answered 400 while the store held
\* an entry
C5_Witness ==
    /\ request.path = "/redirect_bridge"
    /\ Get(Dict(request.query), K_state) \notin DOMAIN redirect_bridge_map
    /\ response.status = 400
    /\ DOMAIN redirect_bridge_map # {}

\* ---- C6 ---------------------------------------------------------------------

\* C6: /authorize with a redirect_uri that is already HTTPS is forwarded with
\* redirect_uri and state unchanged in the outgoing query, and the bridge
\* store is left unchanged.
C6_HttpsUnchanged ==
    [][(/\ Handles("/authorize")
        /\ Truthy(ReqParam(K_redirect_uri))
        /\ StartsWith(ReqParam(K_redirect_uri), Https)
        /\ response'.status = 302)
        => /\ Get(QueryOf(response'.location), K_redirect_uri) = ReqParam(K_redirect_uri)
           /\ Get(QueryOf(response'.location), K_state) = ReqParam(K_state)
           /\ redirect_bridge_map' = redirect_bridge_map]_vars

\* an HTTPS redirect_uri was forwarded while the store held an entry
C6_Witness ==
    /\ request.path = "/authorize"
    /\ Get(Dict(request.query), K_redirect_uri) = R_https
    /\ response.status = 302
    /\ DOMAIN redirect_bridge_map # {}

\* ---- C7 ---------------------------------------------------------------------

\* C7: a forwarded /authorize engages the bridge (stores an entry for the
\* state and rewrites redirect_uri to {bridge_base}/redirect_bridge) if and
\* only if bridging is enabled, a bridge base is configured, and redirect_uri
\* is present and targets host 127.0.0.1 or localhost over plain HTTP;
\* otherwise no entry is stored and redirect_uri is not rewritten.
C7_EngagedIffLoopback ==
    [][(Handles("/authorize") /\ response'.status = 302) =>
        LET R   == ReqParam(K_redirect_uri)
            out == Get(QueryOf(response'.location), K_redirect_uri)
        IN  IF /\ redirect_bridge_enabled
               /\ Truthy(external_bridge_base)
               /\ TargetsLoopbackHttp(R)
            THEN /\ Engages
                 /\ \E k \in DOMAIN redirect_bridge_map' :
                       redirect_bridge_map'[k] = [redirect |-> R, ts |-> now]
                 /\ out = RStripSlash(external_bridge_base) \o RedirectBridgePath
            ELSE /\ redirect_bridge_map' = redirect_bridge_map
                 /\ bridge_log' = bridge_log
                 /\ out = R]_vars

\* ---- C8 ---------------------------------------------------------------------

NotClientSecret(p) == p[1] # K_client_secret

\* the query without its client_secret parameters
WithoutSecret(query) == SelectSeq(query, NotClientSecret)

\* C8: the Location of every 302 of /authorize carries no client_secret
\* parameter, and is the Location the same request without client_secret
\* gets in the same state.
C8_NoClientSecret ==
    [][(Handles("/authorize") /\ response'.status = 302)
        => /\ K_client_secret \notin Keys(QueryOf(response'.location))
           /\ response'.location =
                proxy_authorize(WithoutSecret(request'.query), request'.answer).response.location]_vars

\* a request carrying client_secret engaged the bridge and was forwarded
C8_Witness ==
    /\ request.path = "/authorize"
    /\ K_client_secret \in Keys(request.query)
    /\ response.status = 302
    /\ bridge_log # <<>>
    /\ bridge_log[Len(bridge_log)].n = nreq

\* ---- C9 ---------------------------------------------------------------------

\* C9: when /authorize engages the bridge, the state sent on to the
\* authorization endpoint is the key under which the original redirect_uri
\* is stored; it is the inbound state when that is non-empty, and a
\* generated, non-empty one otherwise.
C9_StateIsKey ==
    [][Engages =>
        /\ response'.status = 302
        /\ \A key \in {Get(QueryOf(response'.location), K_state)} :
              /\ Truthy(key)
              /\ key \in DOMAIN redirect_bridge_map'
              /\ redirect_bridge_map'[key] = [redirect |-> ReqParam(K_redirect_uri), ts |-> now]
              /\ Truthy(ReqParam(K_state)) => key = ReqParam(K_state)]_vars

\* the bridge was engaged by a request without a state
C9_Witness ==
    /\ request.path = "/authorize"
    /\ K_state \notin Keys(request.query)
    /\ response.status = 302
    /\ Get(QueryOf(response.location), K_state) \in DOMAIN redirect_bridge_map

\* ---- C10 --------------------------------------------------------------------

\* C10: /authorize never stores an entry under a state that already has a
\* live (unconsumed, unexpired) entry, so a live entry's original redirect
\* is never replaced.
C10_NoLiveOverwrite ==
    [][Engages =>
        \A s \in DOMAIN redirect_bridge_map :
            redirect_bridge_map[s].ts >= now - redirect_bridge_ttl
            => /\ bridge_log'[Len(bridge_log')].state # s
               /\ s \in DOMAIN redirect_bridge_map'
               /\ redirect_bridge_map'[s].redirect = redirect_bridge_map[s].redirect]_vars

\* ---- C11 --------------------------------------------------------------------

\* the handler of this step had no OAuth config and its discovery failed
DiscoveryFailed ==
    /\ ~TruthyDict(oauth_config)
    /\ ~(request'.answer.status = 200 /\ request'.answer.json_ok)

\* the config the handler of this step worked with has no endpoint under key
EndpointMissing(key) ==
    ~TruthyDict(oauth_config') \/ ~Truthy(Get(oauth_config', key))

\* no 302, no POST to the token endpoint
NothingForwarded ==
    /\ response'.status # 302
    /\ \A i \in DOMAIN calls' : calls'[i].kind # "token"

\* C11: with an OAuth client, /authorize and /token answer 500 with a JSON
\* error body, forward nothing downstream (no 302, no POST) and leave the
\* bridge store unchanged when the config is absent and discovery fails, or
\* when the endpoint they need (authorization_endpoint, token_endpoint) is
\* missing from the config.
C11_ConfigErrors ==
    [][/\ (/\ Handles("/authorize")
           /\ domoticz_oauth_client
           /\ (DiscoveryFailed \/ EndpointMissing(K_authorization_endpoint)))
          => /\ response'.status = 500 /\ response'.kind = "json"
             /\ NothingForwarded
             /\ redirect_bridge_map' = redirect_bridge_map
       /\ (/\ Handles("/token")
           /\ domoticz_oauth_client
           /\ (DiscoveryFailed \/ EndpointMissing(K_token_endpoint)))
          => /\ response'.status = 500 /\ response'.kind = "json"
             /\ NothingForwarded
             /\ redirect_bridge_map' = redirect_bridge_map]_vars

\* /token, not the first request, found a discovered config without
\* token_endpoint and answered 500
C11_Witness ==
    /\ request.path = "/token"
    /\ TruthyDict(oauth_config)
    /\ ~Truthy(Get(oauth_config, K_token_endpoint))
    /\ response = JsonError("token_endpoint missing", 500)
    /\ redirect_bridge_map = <<>>
    /\ nreq >= 2

\* ---- C12 --------------------------------------------------------------------

\* C12: without a bridge base, an /authorize whose redirect_uri is an http
\* loopback URI, handled with a usable OAuth config, is answered 302 to the
\* authorization endpoint with redirect_uri as the client sent it, and
\* stores no bridge entry.
C12_NoBaseNoBridge ==
    [][(/\ Handles("/authorize")
        /\ external_bridge_base = None
        /\ TargetsLoopbackHttp(ReqParam(K_redirect_uri))
        /\ domoticz_oauth_client
        /\ ~DiscoveryFailed
        /\ ~EndpointMissing(K_authorization_endpoint))
        => /\ response'.status = 302
           /\ BaseOf(response'.location) = Get(oauth_config', K_authorization_endpoint)
           /\ Get(QueryOf(response'.location), K_redirect_uri) = ReqParam(K_redirect_uri)
           /\ redirect_bridge_map' = redirect_bridge_map
           /\ bridge_log' = bridge_log]_vars

\* a loopback redirect_uri was forwarded as it came by a server without a
\* bridge base
C12_Witness ==
    /\ request.path = "/authorize"
    /\ external_bridge_base = None
    /\ Get(Dict(request.query), K_redirect_uri) = R_loop
    /\ response.status = 302
    /\ Get(QueryOf(response.location), K_redirect_uri) = R_loop
    /\ redirect_bridge_map = <<>>

\* ---- C13 --------------------------------------------------------------------

\* the parameter the forward URL carries first for a callback with code and
\* error: the code when there is one, otherwise the error, 'unknown_error'
\* when there is neither
ForwardPayload(code, error) ==
    IF Truthy(code) THEN <<K_code, code>>
    ELSE <<K_error, IF Truthy(error) THEN error ELSE UnknownError>>

\* C13: every 302 of /redirect_bridge goes to the stored original redirect
\* followed by '&' when that contains '?' and by '?' otherwise, then by the
\* parameters code=<code> when the callback has a (non-empty) code, also
\* when it has an error too, otherwise error=<error>, with 'unknown_error'
\* when it has neither, and then state=<state>, always.
C13_ForwardUrl ==
    [][(Handles("/redirect_bridge") /\ response'.status = 302) =>
        \A orig \in {redirect_bridge_map[ReqParam(K_state)].redirect},
           loc \in {response'.location} :
            /\ StartsWith(loc, orig)
            /\ Len(loc) > Len(orig)
            /\ loc[Len(orig) + 1] = (IF Contains(orig, "?") THEN "&" ELSE "?")
            /\ parse_qsl(SubSeq(loc, Len(orig) + 2, Len(loc)))
                 = << ForwardPayload(ReqParam(K_code), ReqParam(K_error)),
                      <<K_state, ReqParam(K_state)>> >>]_vars

\* a callback carrying both a code and an error was forwarded with the code
C13_Witness ==
    /\ request.path = "/redirect_bridge"
    /\ Truthy(Get(Dict(request.query), K_code))
    /\ Truthy(Get(Dict(request.query), K_error))
    /\ response.status = 302
    /\ K_code \in Keys(QueryOf(response.location))
    /\ K_error \notin Keys(QueryOf(response.location))

\* ---- C14 --------------------------------------------------------------------

\* the records of seq that fit the buffer: all of them, or all but the oldest
Evicting(seq) == IF Len(seq) > recent_codes_limit THEN Tail(seq) ELSE seq

\* C14: the recent-codes buffer never holds more than recent_codes_limit
\* records; a callback that takes an entry appends exactly one record, that
\* of the callback, after those already there, and when that exceeds the
\* capacity the oldest record is dropped.
C14_RingBuffer ==
    [][/\ Len(recent_auth_codes') <= recent_codes_limit
       /\ (Handles("/redirect_bridge") /\ Len(bridge_log') = Len(bridge_log) + 1)
          => \E rec \in {recent_auth_codes'[Len(recent_auth_codes')]} :
                /\ rec.state = ReqParam(K_state)
                /\ rec.code = ReqParam(K_code)
                /\ rec.error = ReqParam(K_error)
                /\ rec.ts = now
                /\ recent_auth_codes' = Evicting(Append(recent_auth_codes, rec))]_vars

\* more callbacks have taken an entry than the buffer holds records, and the
\* buffer is full and ends with the records of the latest two
C14_Witness ==
    /\ Cardinality({i \in DOMAIN bridge_log : bridge_log[i].op = "take"}) > recent_codes_limit
    /\ Len(recent_auth_codes) = recent_codes_limit
    /\ recent_auth_codes[recent_codes_limit] # RingRecord
    /\ recent_auth_codes[recent_codes_limit - 1] # RingRecord
    /\ recent_auth_codes[1] = RingRecord

\* ---- vocabulary of the /mcp properties ---------------------------------------

\* this step handles a JSON-RPC request (a body that is a dict) of method m
HandlesRpc(m) ==
    /\ Handles("/mcp")
    /\ IsDict(request'.data)
    /\ PyGet(request'.data, "method", JNull) = m

\* the id of the request this step handles, None when it has none
RequestId == PyGet(request'.data, "id", JNull)

\* the header of the request this step handles is 'Bearer ' and more
BearerHeader ==
    /\ Truthy(request'.authorization)
    /\ StartsWith(request'.authorization, BearerPrefix)

\* the response of this step is a JSON-RPC envelope
Envelope == response'.kind = "json" /\ response'.body # NoBody

\* ---- C15 --------------------------------------------------------------------

\* C15: a tools/call without an Authorization header, or with one that does
\* not start with 'Bearer ', is answered 401 with a WWW-Authenticate header
\* and no JSON-RPC envelope, and no downstream call is made, whatever its
\* params.
C15_Unauthorized ==
    [][(HandlesRpc(JStr("tools/call")) /\ ~BearerHeader)
        => /\ response'.status = 401
           /\ response'.www_authenticate # ""
           /\ ~Envelope
           /\ calls' = <<>>]_vars

\* ---- C16 --------------------------------------------------------------------

KnownMethods ==
    {JStr("initialize"), JStr("tools/list"), JStr("tools/call"), JStr("logging/setLevel")}

\* C16: a JSON-RPC request whose method is none of initialize, tools/list,
\* tools/call and logging/setLevel is answered 200 with an error object of
\* code -32601 and the id of the request, with or without an Authorization
\* header, and no downstream call is made.
C16_MethodNotFound ==
    [][(/\ Handles("/mcp")
        /\ IsDict(request'.data)
        /\ PyGet(request'.data, "method", JNull) \notin KnownMethods)
        => /\ response'.status = 200
           /\ Envelope
           /\ "result" \notin DOMAIN response'.body
           /\ response'.body.error.code = -32601
           /\ response'.body.id = RequestId
           /\ calls' = <<>>]_vars

\* a request of method foo with id 7 and no Authorization header got the
\* error -32601 with id 7
C16_Witness ==
    /\ request.path = "/mcp"
    /\ IsDict(request.data)
    /\ PyGet(request.data, "method", JNull) = JStr("foo")
    /\ request.authorization = None
    /\ response.status = 200
    /\ response.body.error.code = -32601
    /\ response.body.id = JNum(7)

\* ---- C17 --------------------------------------------------------------------

\* C17: a /mcp request answered 500 carries the JSON-RPC error -32603, with
\* the id of the request whenever the body parsed into a request (a dict),
\* and null otherwise.
C17_InternalErrorId ==
    [][(Handles("/mcp") /\ response'.status = 500)
        => /\ Envelope
           /\ response'.body.error.code = -32603
           /\ response'.body.id = (IF IsDict(request'.data) THEN RequestId ELSE JNull)]_vars

\* ---- C18 --------------------------------------------------------------------

\* C18: every JSON-RPC envelope that answers a /mcp request with status 200
\* carries the id of the request as it came, null when the request has a
\* null id or none.
C18_IdEchoed ==
    [][(Handles("/mcp") /\ response'.status = 200)
        => /\ Envelope
           /\ IsDict(request'.data)
           /\ response'.body.id = RequestId]_vars

\* an initialize request without an id was answered with a result under
\* the id null
C18_Witness ==
    /\ request.path = "/mcp"
    /\ IsDict(request.data)
    /\ PyGet(request.data, "method", JNull) = JStr("initialize")
    /\ "id" \notin DOMAIN request.data.o
    /\ response.status = 200
    /\ response.body.id = JNull
    /\ "result" \in DOMAIN response.body

\* ---- C19 --------------------------------------------------------------------

\* the params of the tools/call this step handles, {} when it has none
CallParams == PyGet(request'.data, "params", EmptyDict)

\* what execute_domoticz_tool gives for the tools/call this step handles
Executed ==
    execute_domoticz_tool(PyGet(CallParams, "name", JNull),
                          PyGet(CallParams, "arguments", EmptyDict),
                          SubSeq(request'.authorization, 8, Len(request'.authorization)),
                          request'.reply)

\* the response of this step is 200 with a JSON-RPC result, no error object,
\* whose one content item is the text json.dumps of the executor's value
WrapsExecuted ==
    /\ response'.status = 200
    /\ Envelope
    /\ "error" \notin DOMAIN response'.body
    /\ "result" \in DOMAIN response'.body
    /\ response'.body.result.content = << [type |-> "text", text |-> Dumps(Executed.result)] >>
    /\ calls' = Executed.calls

\* C19 as stated: every tools/call with a Bearer header is answered 200 with
\* a JSON-RPC result wrapping the executor's return value.
C19_AlwaysResult ==
    [][(HandlesRpc(JStr("tools/call")) /\ BearerHeader) => WrapsExecuted]_vars

\* C19: a tools/call with a Bearer header whose params is a JSON object, or
\* absent, is answered 200 with a JSON-RPC result and no error object; the
\* text of its one content item is the serialization of the value the
\* executor returns, an {"error": ...} value included.  One whose params is
\* no object is answered 500 with the error -32603, without a downstream call.
C19_ResultWrapsExecuted ==
    [][(HandlesRpc(JStr("tools/call")) /\ BearerHeader)
        => IF IsDict(CallParams)
           THEN WrapsExecuted
           ELSE /\ response'.status = 500
                /\ Envelope
                /\ "result" \notin DOMAIN response'.body
                /\ response'.body.error.code = -32603
                /\ calls' = <<>>]_vars

\* an authorized tools/call of domoticz_device_status without idx was
\* answered 200 with the result wrapping the executor's error value
C19_Witness ==
    /\ request.path = "/mcp"
    /\ IsDict(request.data)
    /\ PyGet(request.data, "method", JNull) = JStr("tools/call")
    /\ request.authorization = BearerT1
    /\ PyGet(request.data, "params", EmptyDict)
          = ToolParams(JStr("domoticz_device_status"), EmptyDict)
    /\ response.status = 200
    /\ "result" \in DOMAIN response.body
    /\ response.body.result.content[1].text
          = Dumps(JObj([error |-> JStr("idx parameter is required")]))

\* ---- C20 --------------------------------------------------------------------

\* names a client may ask for: the ones execute_domoticz_tool compares with
\* and two it does not
ToolNames ==
    {"domoticz_get_version", "domoticz_list_devices", "domoticz_device_status",
     "domoticz_list_scenes", "domoticz_get_log", "domoticz_nope", "domoticz_get_logs"}

\* execute_domoticz_tool does not answer 'Unknown tool' to the name
Accepts(name) ==
    \/ "params" \in DOMAIN ToolRequest(JStr(name), EmptyDict)
    \/ ToolRequest(JStr(name), EmptyDict).result.o.error.s # "Unknown tool: "

\* the tools of the response of this step
Listed == response'.body.result.tools

\* C20: every tools/list is answered 200 with a list that has one entry for
\* each name the executor accepts and no other, each entry with a non-empty
\* name and an inputSchema of type object; the list is the one the previous
\* tools/list got, whatever the Authorization header and the requests before,
\* and no downstream call is made.
C20_ToolsList ==
    [][HandlesRpc(JStr("tools/list"))
        => /\ response'.status = 200
           /\ Envelope
           /\ "result" \in DOMAIN response'.body
           /\ \A i \in DOMAIN Listed :
                 /\ Listed[i].name # ""
                 /\ Listed[i].inputSchema.type = "object"
           /\ {Listed[i].name : i \in DOMAIN Listed} = {n \in ToolNames : Accepts(n)}
           /\ Len(Listed) = Cardinality({n \in ToolNames : Accepts(n)})
           /\ calls' = <<>>
           /\ (/\ request.path = "/mcp"
               /\ IsDict(request.data)
               /\ PyGet(request.data, "method", JNull) = JStr("tools/list"))
                 => Listed = response.body.result.tools]_vars

\* the second request is a tools/list under the header 'Basic x', answered
\* with the list of five tools
C20_Witness ==
    /\ nreq = 2
    /\ request.path = "/mcp"
    /\ IsDict(request.data)
    /\ PyGet(request.data, "method", JNull) = JStr("tools/list")
    /\ request.authorization = BasicX
    /\ response.status = 200
    /\ Len(response.body.result.tools) = 5

\* ---- vocabulary of the tool properties ---------------------------------------

\* this step handled a tools/call that got the reply of a downstream call
CallsDownstream == HandlesRpc(JStr("tools/call")) /\ request'.reply # NoReply

\* the response of this step is 200 with a JSON-RPC result, no error object,
\* whose one content item is the text json.dumps of value
Carries(value) ==
    /\ response'.status = 200
    /\ Envelope
    /\ "error" \notin DOMAIN response'.body
    /\ "result" \in DOMAIN response'.body
    /\ response'.body.result.content = << [type |-> "text", text |-> Dumps(value)] >>

\* ---- C21 --------------------------------------------------------------------

\* {"error": "OAuth token expired or invalid", "status_code": 401}
TokenExpired ==
    JObj([error |-> JStr("OAuth token expired or invalid"), status_code |-> JNum(401)])

\* C21: when the downstream API answers 401 to the call of a tool, whichever
\* tool it is, the /mcp response is 200 with a JSON-RPC result whose text is
\* the value {"error": "OAuth token expired or invalid", "status_code": 401}.
C21_Downstream401 ==
    [][(CallsDownstream /\ request'.reply.status = 401)
        => /\ Carries(TokenExpired)
           /\ Len(calls') = 1]_vars

\* a domoticz_device_status call with idx 5 met a downstream 401 and was
\* answered 200 with the value in its result
C21_Witness ==
    /\ request.path = "/mcp"
    /\ IsDict(request.data)
    /\ PyGet(request.data, "params", EmptyDict)
          = ToolParams(JStr("domoticz_device_status"), JObj([idx |-> JNum(5)]))
    /\ request.reply.status = 401
    /\ response.status = 200
    /\ response.body.result.content[1].text = Dumps(TokenExpired)

\* ---- C22 --------------------------------------------------------------------

\* the reply is a failure other than 401: another status than 200, no reply
\* at all (timeout, connection failure: status 0), or 200 with a body that
\* is no JSON
OtherFailure(reply) ==
    /\ reply # NoReply
    /\ reply.status # 401
    /\ ~(reply.status = 200 /\ reply.json_ok)

\* C22: when the downstream call of a tool fails otherwise than by a 401, the
\* /mcp response is 200, never 500, with a JSON-RPC result whose text is the
\* value make_authenticated_request made of the failure, an object with the
\* key error.
C22_FailuresBecomeValues ==
    [][(HandlesRpc(JStr("tools/call")) /\ OtherFailure(request'.reply))
        => /\ response'.status # 500
           /\ Carries(make_authenticated_request(request'.reply))
           /\ \A v \in {response'.body.result.content[1].text.dumps} :
                 IsDict(v) /\ "error" \in DOMAIN v.o /\ v # TokenExpired]_vars

\* a domoticz_get_version call whose downstream call got no reply was
\* answered 200 with an error value in its result
C22_Witness ==
    /\ request.path = "/mcp"
    /\ IsDict(request.data)
    /\ PyGet(request.data, "params", EmptyDict)
          = ToolParams(JStr("domoticz_get_version"), EmptyDict)
    /\ request.reply # NoReply
    /\ request.reply.status = 0
    /\ response.status = 200
    /\ "error" \in DOMAIN response.body.result.content[1].text.dumps.o

\* ---- vocabulary of the executor properties ----------------------------------

\* this step handled a tools/call with a Bearer header and params that is a
\* dict
ToolCall == HandlesRpc(JStr("tools/call")) /\ BearerHeader /\ IsDict(CallParams)

\* the name and the arguments the handler hands to the executor
ToolName == PyGet(CallParams, "name", JNull)
ToolArguments == PyGet(CallParams, "arguments", EmptyDict)

\* the token of the Authorization header of the request this step handles
AccessToken == SubSeq(request'.authorization, 8, Len(request'.authorization))

\* the name is one of the listed tools
KnownTool(name) ==
    \E i \in DOMAIN get_available_tools : name = JStr(get_available_tools[i].name)

\* {"error": "Domoticz OAuth client not configured"}
NotConfigured == JObj([error |-> JStr("Domoticz OAuth client not configured")])

\* ---- C23 --------------------------------------------------------------------

\* {"error": "idx parameter is required"}
IdxRequired == JObj([error |-> JStr("idx parameter is required")])

\* the arguments carry no idx
IdxMissing(arguments) == ~IsDict(arguments) \/ "idx" \notin DOMAIN arguments.o

\* the arguments carry an idx the schema admits: an integer, at least 1
IdxValid(arguments) ==
    /\ IsDict(arguments)
    /\ "idx" \in DOMAIN arguments.o
    /\ arguments.o.idx.t = "num"
    /\ arguments.o.idx.n >= 1

\* the call is answered with the idx error, without a downstream call
RejectsIdx == Carries(IdxRequired) /\ calls' = <<>>

\* the call is not rejected: the device is asked for downstream
AsksDevice ==
    /\ Len(calls') = 1
    /\ calls'[1].data = With(Command("getdevices"), "rid", StrOf(ToolArguments.o.idx))
    /\ Carries(make_authenticated_request(request'.reply))

\* C23 as stated: every domoticz_device_status call without idx is answered
\* with the idx error and no downstream call, and every one with a valid idx
\* is not rejected.
C23_IdxValidated ==
    [][(ToolCall /\ ToolName = JStr("domoticz_device_status"))
        => /\ IdxMissing(ToolArguments) => RejectsIdx
           /\ IdxValid(ToolArguments) => AsksDevice]_vars

\* C23: on a server with an OAuth client, a domoticz_device_status call
\* whose arguments is an object without idx, or is absent, is answered with
\* the idx error and no downstream call, and one with an integer idx of at
\* least 1 makes the downstream call for that device.  Without a client the
\* value is the not-configured error, with arguments that is no object the
\* execution-failed error, both without a downstream call.
C23_IdxValidatedWithClient ==
    [][(ToolCall /\ ToolName = JStr("domoticz_device_status"))
        => IF ~domoticz_oauth_client THEN Carries(NotConfigured) /\ calls' = <<>>
           ELSE IF ~IsDict(ToolArguments) THEN Carries(ToolExecutionFailed) /\ calls' = <<>>
           ELSE /\ IdxMissing(ToolArguments) => RejectsIdx
                /\ IdxValid(ToolArguments) => AsksDevice]_vars

\* on a server with a client, a call without arguments got the idx error
\* and made no downstream call
C23_Witness ==
    /\ domoticz_oauth_client
    /\ request.path = "/mcp"
    /\ IsDict(request.data)
    /\ request.authorization = BearerT1
    /\ PyGet(request.data, "params", EmptyDict)
          = ToolParams(JStr("domoticz_device_status"), Absent)
    /\ response.status = 200
    /\ response.body.result.content[1].text = Dumps(IdxRequired)
    /\ calls = <<>>

\* ---- C24 --------------------------------------------------------------------

\* the call names a listed tool and its arguments pass the tool's checks
PassesValidation == KnownTool(ToolName) /\ "params" \in DOMAIN ToolRequest(ToolName, ToolArguments)

\* exactly one downstream GET was made, of /json.htm with the token of the
\* request as its credential
OneGet ==
    /\ Len(calls') = 1
    /\ calls'[1].kind = "api"
    /\ calls'[1].url = domoticz_base_url \o JsonHtmPath
    /\ calls'[1].bearer = AccessToken

\* C24 as stated: every authorized tools/call for a listed tool that passes
\* validation makes exactly one downstream GET with the token of its own
\* header.
C24_OneGet ==
    [][(ToolCall /\ PassesValidation) => OneGet]_vars

\* C24: on a server with an OAuth client, every authorized tools/call for a
\* listed tool that passes validation makes exactly one downstream GET with
\* the token of its own header, whatever the downstream replies; without a
\* client it makes none.
C24_OneGetWithClient ==
    [][(ToolCall /\ PassesValidation)
        => IF domoticz_oauth_client THEN OneGet ELSE calls' = <<>>]_vars

\* the second request is a call of domoticz_list_scenes that met a
\* downstream 401 and made one call with the token T1
C24_Witness ==
    /\ nreq = 2
    /\ request.path = "/mcp"
    /\ request.authorization = BearerT1
    /\ request.reply # NoReply
    /\ request.reply.status = 401
    /\ Len(calls) = 1
    /\ calls[1].bearer = <<"T","1">>
    /\ calls[1].data = Command("getscenes")

\* ---- C25 --------------------------------------------------------------------

\* {"error": f"Unknown tool: {name}"}
UnknownTool(name) == JObj([error |-> JFmt("Unknown tool: ", name)])

\* C25 as stated: every authorized tools/call naming no listed tool is
\* answered with the unknown-tool error for that name, without a downstream
\* call.
C25_UnknownTool ==
    [][(ToolCall /\ ~KnownTool(ToolName))
        => Carries(UnknownTool(ToolName)) /\ calls' = <<>>]_vars

\* C25: on a server with an OAuth client, every authorized tools/call naming
\* no listed tool is answered with the unknown-tool error for that name;
\* without a client the value is the not-configured error; in both cases no
\* downstream call is made.
C25_UnknownToolWithClient ==
    [][(ToolCall /\ ~KnownTool(ToolName))
        => /\ Carries(IF domoticz_oauth_client THEN UnknownTool(ToolName) ELSE NotConfigured)
           /\ calls' = <<>>]_vars

\* on a server with a client, a call of domoticz_nope got the unknown-tool
\* error for that name and made no downstream call
C25_Witness ==
    /\ domoticz_oauth_client
    /\ request.path = "/mcp"
    /\ IsDict(request.data)
    /\ request.authorization = BearerT1
    /\ PyGet(request.data, "params", EmptyDict) = ToolParams(JStr("domoticz_nope"), EmptyDict)
    /\ response.status = 200
    /\ response.body.result.content[1].text = Dumps(UnknownTool(JStr("domoticz_nope")))
    /\ calls = <<>>

\* ---- C26 --------------------------------------------------------------------

\* the first characters of the body, at most as many as resp.text[:200] keeps
Truncated(body) == SubSeq(body, 1, IF Len(body) < RawLimit THEN Len(body) ELSE RawLimit)

\* C26: a /token request whose POST to the token endpoint got a response is
\* answered with the status of that response and a JSON body: the JSON of
\* the downstream when its body parses, {"raw": <the first 200 characters of
\* the body>} otherwise; one whose POST failed is answered 500 with a JSON
\* error body.
C26_TokenPassThrough ==
    [][(Handles("/token") /\ request'.reply # NoReply)
        => /\ response'.kind = "json"
           /\ IF request'.reply.status = 0
              THEN response'.status = 500 /\ response'.text # ""
              ELSE /\ response'.status = request'.reply.status
                   /\ response'.body = IF request'.reply.json_ok
                                       THEN [json |-> request'.reply.body]
                                       ELSE [raw |-> Truncated(request'.reply.body)]]_vars

\* a downstream 503 with a body of 201 characters that is no JSON was
\* answered 503 with the first 200 characters as raw
C26_Witness ==
    /\ request.path = "/token"
    /\ request.reply # NoReply
    /\ request.reply.status = 503
    /\ Len(request.reply.body) > RawLimit
    /\ response.status = 503
    /\ "raw" \in DOMAIN response.body
    /\ Len(response.body.raw) = RawLimit

\* ---- C27 --------------------------------------------------------------------

\* the words that make a key sensitive
SensitiveWords ==
    { <<"s","e","c","r","e","t">>, <<"t","o","k","e","n">>, <<"c","o","d","e">>,
      <<"a","s","s","e","r","t","i","o","n">>, <<"p","a","s","s","w","o","r","d">> }

\* the dict a log line of proxy_token renders: the form, or the body
Rendered(entry) ==
    IF entry.line = "data" THEN Dict(request'.query) ELSE TokenData(request'.reply)

\* in the log line, every field of the dict d with a sensitive key stands as
\* '***', and its value stands nowhere in the line
RedactedIn(entry, d) ==
    \A j \in DOMAIN d :
        Sensitive(d[j][1], SensitiveWords)
            => /\ entry.fields[j] = <<d[j][1], Stars>>
               /\ \A m \in DOMAIN entry.fields : entry.fields[m][2] # d[j][2]

\* C27: in every line the token proxy logs about the form of the request
\* and about the body of the response, the value of each field whose key
\* contains secret, token, code, assertion or password, in any case of
\* letters, is replaced by '***' and does not appear.
C27_LogRedacted ==
    [][Handles("/token")
        => \A i \in DOMAIN proxy_log' : RedactedIn(proxy_log'[i], Rendered(proxy_log'[i]))]_vars

\* ---- C28 --------------------------------------------------------------------

\* this step handles a request to one of the two proxies on a server with a
\* client
Proxies == domoticz_oauth_client /\ (Handles("/authorize") \/ Handles("/token"))

\* the discovery of the request handled last failed: its answer was another
\* status than 200, a body that is no JSON, or none
LastDiscoveryFailed ==
    /\ request.answer # NoAnswer
    /\ ~(request.answer.status = 200 /\ request.answer.json_ok)

\* the handler of this step called the discovery document, first of all
Discovers == calls' # <<>> /\ calls'[1] = DiscoveryCall

\* C28: a discovery that meets another status than 200, no answer or a body
\* that is no JSON returns false, so that the proxy answers 500, and leaves
\* oauth_config as it was; the next /authorize or /token after a failed
\* discovery calls the discovery document again; and the document is called
\* and oauth_config changed by such a request only, never between requests.
C28_LazyRediscovery ==
    [][/\ (Proxies /\ DiscoveryFailed)
          => /\ Discovers
             /\ oauth_config' = oauth_config
             /\ response' = JsonError("OAuth discovery failed", 500)
       /\ (Proxies /\ LastDiscoveryFailed) => Discovers
       /\ (Proxies /\ ~TruthyDict(oauth_config)) <=> (\E i \in DOMAIN calls' : calls'[i].kind = "discovery")
       /\ (oauth_config' # oauth_config) => (Proxies /\ Discovers)]_vars

\* the second request, a /token, called the discovery document after the
\* discovery of the first request had failed, and got a config
C28_Witness ==
    /\ nreq = 2
    /\ domoticz_oauth_client
    /\ request.path = "/token"
    /\ calls # <<>>
    /\ calls[1] = DiscoveryCall
    /\ request.answer.status = 200
    /\ request.answer.json_ok
    /\ oauth_config = _normalize(DocFull)
    /\ Len(calls) = 2

\* ---- C29 --------------------------------------------------------------------

\* the keys whose values are endpoints
EndpointKeys == {K_authorization_endpoint, K_token_endpoint, K_issuer}

\* the configured host: the netloc of the base URL
TargetNetloc == urlparse(domoticz_base_url).netloc

\* the host of the endpoint differs from the configured one and starts with
\* domoticz.local
Rewritable(url) ==
    /\ urlparse(url).netloc # TargetNetloc
    /\ hostname(urlparse(url).netloc) # None
    /\ StartsWith(hostname(urlparse(url).netloc), DomoticzLocal)

\* new is url with the configured host and the same scheme, path, params,
\* query and fragment
Rehosted(url, new) ==
    /\ urlparse(new).netloc = TargetNetloc
    /\ urlparse(new).scheme = urlparse(url).scheme
    /\ urlparse(new).path = urlparse(url).path
    /\ urlparse(new).params = urlparse(url).params
    /\ urlparse(new).query = urlparse(url).query
    /\ urlparse(new).fragment = urlparse(url).fragment

\* this step stored the document of a discovery that succeeded
StoresDocument ==
    /\ Proxies
    /\ ~TruthyDict(oauth_config)
    /\ request'.answer.status = 200
    /\ request'.answer.json_ok
    /\ TruthyDict(request'.answer.doc)

\* C29: the config stored after a discovery has, for each endpoint of the
\* document, the configured host with scheme, path, params, query and
\* fragment kept when the endpoint's host differs from the configured one
\* and starts with domoticz.local, and the endpoint as it came otherwise;
\* every other key is as it came; and normalizing the stored config again
\* changes nothing.
C29_Normalization ==
    [][StoresDocument
        => \A doc \in {request'.answer.doc}, cfg \in {oauth_config'} :
              /\ Keys(cfg) = Keys(doc)
              /\ \A key \in Keys(doc) :
                    IF key \in EndpointKeys /\ Truthy(Get(doc, key)) /\ Rewritable(Get(doc, key))
                    THEN Rehosted(Get(doc, key), Get(cfg, key))
                    ELSE Get(cfg, key) = Get(doc, key)
              /\ _normalize(cfg) = cfg]_vars

\* ---- C30 --------------------------------------------------------------------

\* the state a callback task is for
TaskState(task) == Get(Dict(task.query), K_state)

\* the requests that stored an entry for state s
Puts(log, s) == {k \in DOMAIN log : log[k].op = "put" /\ log[k].state = s}

\* the callbacks for state s that were run after request number n
RunAfter(ts, s, n) ==
    {i \in DOMAIN ts : TaskState(ts[i]) = s /\ ts[i].pc = "done" /\ ts[i].n > n}

Forwarded(task) == task.response.status = 302

Refused(task) ==
    task.response = TextResponse("Redirect bridge state unknown or expired", 400)

\* C30: a callback task is either not yet run or done, with no position in
\* between; the run of a callback whose state is stored removes the entry
\* and forwards in that same step, and the run of any other callback is
\* answered 400 and leaves the store alone; so of the callbacks run after
\* the only /authorize that stored their state, in whatever order, exactly
\* one is forwarded and every other one is answered 400.
C30_AtomicTake ==
    [][\A ts \in {tasks'}, log \in {bridge_log'} :
          /\ \A i \in DOMAIN ts : ts[i].pc \in {"scheduled", "done"}
          /\ \A i \in DOMAIN tasks :
                ts[i] # tasks[i]
                => IF Truthy(TaskState(tasks[i]))
                      /\ TaskState(tasks[i]) \in DOMAIN redirect_bridge_map
                   THEN /\ TaskState(tasks[i]) \notin DOMAIN redirect_bridge_map'
                        /\ Forwarded(ts[i])
                   ELSE /\ redirect_bridge_map' = redirect_bridge_map
                        /\ Refused(ts[i])
          /\ \A s \in {S_abc, S_sp} :
                Cardinality(Puts(log, s)) = 1
                => \A k \in Puts(log, s) :
                      RunAfter(ts, s, log[k].n) # {}
                      => \E i \in RunAfter(ts, s, log[k].n) :
                            /\ Forwarded(ts[i])
                            /\ \A j \in RunAfter(ts, s, log[k].n) \ {i} : Refused(ts[j])]_vars

\* two callbacks for state abc were run after the one /authorize that stored
\* abc: one was forwarded, the other answered 400
C30_Witness ==
    /\ Cardinality(Puts(bridge_log, S_abc)) = 1
    /\ \E k \in Puts(bridge_log, S_abc) :
          \E i, j \in RunAfter(tasks, S_abc, bridge_log[k].n) :
             /\ i # j
             /\ Forwarded(tasks[i])
             /\ Refused(tasks[j])

\* ---- C31 --------------------------------------------------------------------

\* the POST of a /token request is outstanding
PostOutstanding(task) == task.path = "/token" /\ task.pc = "executor"

\* the requests that need no downstream call
Light(task) ==
    \/ task.path = "/health"
    \/ task.path = "/mcp" /\ ~CallsApi(task.data, task.authorization)

\* C31: while the POST of a /token request is outstanding, its task does not
\* hold the thread of the event loop: every task that stands at an await or
\* was not started can be run, unless the thread is inside the downstream call
\* of another handler; and a /health or initialize request run meanwhile is
\* completed with status 200 while the POST stays outstanding.
C31_TokenOffLoop ==
    [][\A i \in DOMAIN tasks :
          PostOutstanding(tasks[i])
          => /\ ~HoldsLoop(tasks[i])
             /\ \A j \in DOMAIN tasks :
                   (/\ Suspended(tasks[j])
                    /\ \A k \in DOMAIN tasks \ {i} : ~HoldsLoop(tasks[k]))
                   => CanRun(j)
             /\ \A j \in DOMAIN tasks \ {i} :
                   (Light(tasks[j]) /\ tasks'[j].pc = "done" /\ tasks[j].pc # "done")
                   => /\ tasks'[j].response.status = 200
                      /\ tasks'[i] = tasks[i]]_vars

\* a /health request was answered while the POST of a /token request was
\* outstanding
C31_Witness ==
    \E i, j \in DOMAIN tasks :
       /\ PostOutstanding(tasks[i])
       /\ tasks[j].path = "/health"
       /\ tasks[j].pc = "done"
       /\ tasks[j].response.status = 200
       /\ tasks[j].n > tasks[i].n

\* ---- C32 --------------------------------------------------------------------

\* the downstream call of a tools/call execution or of a discovery is
\* outstanding
DownstreamOutstanding(task) == task.pc \in {"discovery", "tool"}

\* C32: while the downstream call of a tools/call execution or of a
\* discovery is outstanding, the event loop can run every task that stands
\* at an await or was not started.
C32_NeverStalled ==
    \A i, j \in DOMAIN tasks :
       (DownstreamOutstanding(tasks[i]) /\ Suspended(tasks[j])) => CanRun(j)

\* ---- C33 --------------------------------------------------------------------

\* the request of this step made a discovery call
DiscoveryCalled == \E i \in DOMAIN calls' : calls'[i].kind = "discovery"

\* a discovery has succeeded: the config is no longer the None of the
\* constructor
Discovered == oauth_config # NoneDict

\* the discovery of the last request was answered 200 with a document
LastDiscoverySucceeded == request.answer.status = 200 /\ request.answer.json_ok

\* C33 as stated: once a discovery has succeeded, no request makes a
\* discovery call and no request changes the stored config.
C33_Cached ==
    [][Discovered => (~DiscoveryCalled /\ oauth_config' = oauth_config)]_vars

\* C33 for a config that is not empty: once a discovery has stored a config
\* that is not empty, no request makes a discovery call and no request
\* changes the stored config; and a request makes a discovery call exactly
\* when there is a client and the stored config is None or empty.
C33_CachedNonEmpty ==
    [][/\ TruthyDict(oauth_config) => (~DiscoveryCalled /\ oauth_config' = oauth_config)
       /\ DiscoveryCalled
            <=> /\ domoticz_oauth_client
                /\ ~TruthyDict(oauth_config)
                /\ request'.path \in {"/authorize", "/token", "/info"}]_vars

\* /authorize, /token and /info were each handled on a stored config
C33_Witness ==
    /\ TruthyDict(oauth_config)
    /\ nreq = MaxCacheRequests
    /\ calls = <<>>
    /\ request.path = "/info"
    /\ response.body = [authorization |-> oauth_config]

\* ---- C34 --------------------------------------------------------------------

\* the age of the entry stored under k in map at time t
Age(map, k, t) == t - map[k].ts

\* C34: right after a /authorize that engaged the bridge the store holds no
\* entry older than the TTL and the entry just stored carries the current
\* time; a step that is no such /authorize removes no entry but the one a
\* /redirect_bridge callback takes, and changes none.
C34_SweepBeforePut ==
    [][/\ Engages
            => /\ \A k \in DOMAIN redirect_bridge_map' :
                     Age(redirect_bridge_map', k, now) <= redirect_bridge_ttl
               /\ \A s \in {bridge_log'[Len(bridge_log')].state} :
                     /\ s \in DOMAIN redirect_bridge_map'
                     /\ redirect_bridge_map'[s].ts = now
       /\ ~Engages
            => \A k \in DOMAIN redirect_bridge_map :
                  IF Handles("/redirect_bridge") /\ k = ReqParam(K_state)
                  THEN k \notin DOMAIN redirect_bridge_map'
                  ELSE /\ k \in DOMAIN redirect_bridge_map'
                       /\ redirect_bridge_map'[k] = redirect_bridge_map[k]]_vars

\* a /authorize has just stored an entry and swept one that had expired
C34_Witness ==
    /\ request.path = "/authorize"
    /\ bridge_log # <<>>
    /\ bridge_log[Len(bridge_log)].op = "put"
    /\ bridge_log[Len(bridge_log)].n = nreq
    /\ bridge_log[Len(bridge_log)].ts = now
    /\ \E i \in DOMAIN bridge_log :
          /\ bridge_log[i].op = "put"
          /\ bridge_log[i].ts < now - redirect_bridge_ttl
          /\ bridge_log[i].state \notin DOMAIN redirect_bridge_map
          /\ \A j \in (i+1)..Len(bridge_log) : bridge_log[j].op # "take"

\* ---- C35 --------------------------------------------------------------------

OriginalRedirectInvalid == TextResponse("Original redirect invalid", 400)

\* C35: every entry of the bridge store has a plain-HTTP redirect to host
\* 127.0.0.1 or localhost, no request is answered 'Original redirect
\* invalid', and every 302 of /redirect_bridge goes to host 127.0.0.1 or
\* localhost over plain HTTP.
C35_LoopbackOnly ==
    [][/\ \A k \in DOMAIN redirect_bridge_map' :
             TargetsLoopbackHttp(redirect_bridge_map'[k].redirect)
       /\ response' # OriginalRedirectInvalid
       /\ (Handles("/redirect_bridge") /\ response'.status = 302)
            => TargetsLoopbackHttp(response'.location)]_vars

\* ---- C36 --------------------------------------------------------------------

\* the /authorize requests that stored an entry under S and whose callback
\* has not come: no entry was taken under S since
Unanswered(S) ==
    { i \in DOMAIN bridge_log :
        /\ bridge_log[i].op = "put"
        /\ bridge_log[i].state = S
        /\ \A j \in (i+1)..Len(bridge_log) :
              ~(bridge_log[j].op = "take" /\ bridge_log[j].state = S) }

\* C36: a 302 of /redirect_bridge for state S goes to the redirect_uri of the
\* /authorize request the callback answers, whichever of the requests that
\* stored S and are still unanswered that is.
C36_ForwardToOwnRedirect ==
    [][(Handles("/redirect_bridge") /\ response'.status = 302)
        => \A i \in Unanswered(ReqParam(K_state)) :
              response'.location =
                 ForwardUrl(bridge_log[i].redirect, ReqParam(K_code), ReqParam(K_error),
                            ReqParam(K_state))]_vars

\* ---- C37 --------------------------------------------------------------------

\* C37: a tools/call whose Authorization header is 'Bearer ' with nothing
\* after it is answered 401 and makes no downstream call, and every call of
\* the Domoticz API carries a bearer credential that is not empty.
C37_NonEmptyToken ==
    [][/\ (HandlesRpc(JStr("tools/call")) /\ request'.authorization = BearerPrefix)
            => /\ response'.status = 401
               /\ calls' = <<>>
       /\ \A i \in DOMAIN calls' :
             calls'[i].kind = "api" => Truthy(calls'[i].bearer)]_vars

\* ---- the plugin's callbacks and its server threads ---------------------------

PluginRest ==
    UNCHANGED <<now, domoticz_oauth_client, oauth_config, external_bridge_base,
                redirect_bridge_map, recent_auth_codes, request, response, nreq,
                bridge_log, calls, proxy_log, tasks>>

NextPlugin ==
    \/ \E mode1 \in BOOLEAN, mode2 \in HealthIntervals, r \in DiscoveryAnswers :
          /\ onStart(mode1, mode2, r)
          /\ UNCHANGED <<now, external_bridge_base, redirect_bridge_map, recent_auth_codes,
                         request, response, nreq, bridge_log, proxy_log, tasks>>
    \/ \E h \in BOOLEAN : onHeartbeat(h) /\ PluginRest
    \/ Restart /\ PluginRest
    \/ \E h \in BOOLEAN : StartWait(h) /\ PluginRest
    \/ \E Unit \in {1, 2}, Cmd \in {"On", "Off"} : onCommand(Unit, Cmd) /\ PluginRest
    \/ JoinReturn /\ PluginRest
    \/ onStop /\ PluginRest
    \/ \E k \in 1..Len(threads), bound \in BOOLEAN : ServerStart(k, bound) /\ PluginRest
    \/ \E k \in 1..Len(threads) : ServerExit(k) /\ PluginRest

InitPlugin ==
    /\ Init
    /\ ~domoticz_oauth_client
    /\ external_bridge_base = BaseHttps

SpecPlugin == InitPlugin /\ [][NextPlugin]_vars

\* ---- C38 --------------------------------------------------------------------

\* a step starts a server thread
StartsThread == Len(threads') > Len(threads)

\* C38: restart_attempts never exceeds max_restart_attempts; after a health check
\* of the running server failed, onHeartbeat starts at most max_restart_attempts
\* server threads before a start succeeds; and once restart_attempts has reached
\* max_restart_attempts, no heartbeat starts a server thread.
C38_RestartBudget ==
    /\ [](plugin.restart_attempts <= max_restart_attempts)
    /\ [](plugin.auto_starts <= max_restart_attempts)
    /\ [][plugin.restart_attempts >= max_restart_attempts => ~StartsThread]_vars

\* ---- C39 --------------------------------------------------------------------

\* C39: whenever a server thread is started, every server thread started before
\* it has left its keep-alive loop and ended.
C39_OneServerThread ==
    [][StartsThread => \A k \in 1..Len(threads) : ~is_alive(k)]_vars

\* ---- C40 --------------------------------------------------------------------

\* C40: after an Off command stopped the server, and until an On command, no
\* server thread is started.
C40_StaysStopped ==
    [][(plugin.command = "Off" /\ plugin'.command = "Off") => ~StartsThread]_vars

====
